---- MODULE Spec2Model ----
(***************************************************************************)
(* State-machine model of the authentication and security-monitoring core  *)
(* of BuildANeuralNet (apps/api): the LoginAttemptTracker, the             *)
(* authenticate_user orchestrator, the JWT token service with the login   *)
(* and refresh endpoints and get_current_user, and the ThreatDetector.     *)
(*                                                                         *)
(* Time is the value of datetime.utcnow() in seconds.  A handler runs at   *)
(* one instant: every utcnow() call inside one handler reads the same      *)
(* value of `now`.                                                         *)
(***************************************************************************)
EXTENDS Integers, Sequences, FiniteSets, TLC

VARIABLES
    now,        \* datetime.utcnow(), in seconds
    attempts,   \* LoginAttemptTracker.attempts : key -> record
    lockouts,   \* LoginAttemptTracker.lockouts : key -> lockout_until
    log,        \* security events written by the last handler, in order
    ret,        \* the last handler that ran and what it returned or raised
    pre,        \* history: the state the last handler found when it started
    streak,     \* history: record_failed_attempt calls per identifier
                \* since the identifier was last Clean
    users,      \* the User rows as the handlers' db session holds them
    spent,      \* history: the verification tokens verify_email has accepted
    tokens,     \* the JWTs the server has issued
    failed_attempts,   \* ThreatDetector.failed_attempts : ip -> list of times
    request_patterns,  \* ThreatDetector.request_patterns : ip -> deque of times
    suspicious_ips,    \* ThreatDetector.suspicious_ips
    blocked_ips,       \* ThreatDetector.blocked_ips
    seen,              \* history: the times of all analyze_request calls and of
                       \* all record_failed_login calls, per IP
    stream,            \* the lines the last handler wrote through the loggers
    metrics,           \* PerformanceMonitor.metrics : deque of samples
    alerts,            \* PerformanceMonitor.alerts
    endpoint_stats,    \* PerformanceMonitor.endpoint_stats : key -> times
    security_logs,     \* the committed rows of the security_logs table
    pc                 \* the position of each request handler in flight, and
                       \* the attempts map as it read it

trackerVars == <<attempts, lockouts, streak>>
dbVars == <<users, spent>>
tokenVars == <<tokens>>
threatVars == <<failed_attempts, request_patterns, suspicious_ips, blocked_ips, seen>>
monitorVars == <<stream, metrics, alerts, endpoint_stats, security_logs>>
handlerVars == <<pc>>
vars == <<now, attempts, lockouts, log, ret, pre, streak, users, spent, tokens,
          failed_attempts, request_patterns, suspicious_ips, blocked_ips, seen,
          stream, metrics, alerts, endpoint_stats, security_logs, pc>>

----------------------------------------------------------------------------
(* Program constants (auth.py)                                             *)

ACCESS_TOKEN_EXPIRE_MINUTES == 30
REFRESH_TOKEN_EXPIRE_DAYS == 7
MAX_LOGIN_ATTEMPTS == 5
LOGIN_LOCKOUT_DURATION_MINUTES == 30
PASSWORD_MIN_LENGTH == 8
PASSWORD_REQUIRE_UPPERCASE == TRUE
PASSWORD_REQUIRE_LOWERCASE == TRUE
PASSWORD_REQUIRE_NUMBERS == TRUE
PASSWORD_REQUIRE_SPECIAL == TRUE

SECRET_KEY == "your-secret-key-change-this-in-production"
ALGORITHM == "HS256"

(* Bounds of the model                                                     *)

\* the clock stops advancing once it would pass MaxTime (seconds)
MaxTime == 3600
\* the same for the runs of authenticate_user
MaxAuthTime == 1800
\* no identifier is given more failures than this
MaxCount == 6
\* the server issues no more tokens than this
MaxTokens == 4
\* no IP has more requests analysed than this
MaxRequests == 2
\* record_failed_login is not called for an IP whose list is this long
MaxFailures == 6
\* the same as MaxRequests for the runs that reach the rate limit
MaxBurst == 62
\* the clock of those runs stops once it would pass MaxBurstTime (seconds)
MaxBurstTime == 60
\* tokens made by direct calls of the token service
MaxIssued == 1
\* request handlers in flight at once
MaxHandlers == 6
\* users that register
MaxRegistered == 1

\* Python's None, as it is printed in a log line
None == "None"
\* Python's False where a function returns it in place of an object
False == "False"

\* the identifiers the tracker is called with: a client IP and a user key
Identifiers == {"1.2.3.4", "user:u1"}

\* timedelta(minutes=m), in seconds
Minutes(m) == m * 60

\* how far the clock moves between two handlers
ClockSteps ==
    {Minutes(LOGIN_LOCKOUT_DURATION_MINUTES) \div 2,
     Minutes(LOGIN_LOCKOUT_DURATION_MINUTES)}

----------------------------------------------------------------------------
(* database.py: the users table.  u1 is the active user of the spec's     *)
(* scenarios, u2 a deactivated one; no row has the email nobody@x.com.     *)

\* pwd_context.hash(password): a hash that only this password verifies
pwd_hash(password) == "$2b$" \o password

UserTable ==
    [u \in {"u1", "u2"} |->
        [id |-> u,
         email |-> u \o "@x.com",
         username |-> u,
         is_verified |-> TRUE,
         verification_token |-> None,
         is_active |-> (u = "u1"),
         hashed_password |-> pwd_hash("P@ssw0rd1"),
         last_login |-> None,
         last_login_ip |-> None]]

Emails == {"u1@x.com", "u2@x.com", "nobody@x.com"}

Passwords == {"P@ssw0rd1", "wrong"}

----------------------------------------------------------------------------
(* Python dict helpers                                                     *)

\* d with d[k] = v set
DictSet(d, k, v) == [x \in DOMAIN d \cup {k} |-> IF x = k THEN v ELSE d[x]]

\* del d[k]
DictDel(d, k) == [x \in DOMAIN d \ {k} |-> d[x]]

EmptyDict == [x \in {} |-> 0]

----------------------------------------------------------------------------
(* auth.py: log_security_event                                             *)

\* the event written without the address it came from
log_security_event_no_ip(event_type, user_id, ip_address, details) ==
    [event_type |-> event_type, user_id |-> user_id,
     ip_address |-> None, details |-> details]

\* the event written without the user it is about
log_security_event_no_user(event_type, user_id, ip_address, details) ==
    [event_type |-> event_type, user_id |-> None,
     ip_address |-> ip_address, details |-> details]

log_security_event(event_type, user_id, ip_address, details) ==
    [event_type |-> event_type, user_id |-> user_id,
     ip_address |-> ip_address, details |-> details]

----------------------------------------------------------------------------
(* auth.py: class LoginAttemptTracker                                      *)

get_attempt_key(identifier) == "login_attempts:" \o identifier

get_lockout_key(identifier) == "login_lockout:" \o identifier

\* is_locked_out that forgets the attempt record when the lockout has expired
is_locked_out_keeps_record(att, lck, identifier, t) ==
    LET lockout_key == get_lockout_key(identifier)
    IN  IF lockout_key \in DOMAIN lck
        THEN IF t < lck[lockout_key]
             THEN [value |-> TRUE, attempts |-> att, lockouts |-> lck]
             ELSE [value |-> FALSE, attempts |-> att,
                   lockouts |-> DictDel(lck, lockout_key)]
        ELSE [value |-> FALSE, attempts |-> att, lockouts |-> lck]

\* is_locked_out that never lets a lockout expire
is_locked_out_never_expires(att, lck, identifier, t) ==
    [value |-> get_lockout_key(identifier) \in DOMAIN lck,
     attempts |-> att, lockouts |-> lck]

\* is_locked_out that starts the lockout anew on every call made during it
is_locked_out_restarts(att, lck, identifier, t) ==
    LET lockout_key == get_lockout_key(identifier)
        attempt_key == get_attempt_key(identifier)
    IN  IF lockout_key \in DOMAIN lck
        THEN IF t < lck[lockout_key]
             THEN [value |-> TRUE, attempts |-> att,
                   lockouts |-> DictSet(lck, lockout_key,
                                    t + Minutes(LOGIN_LOCKOUT_DURATION_MINUTES))]
             ELSE [value |-> FALSE,
                   attempts |-> IF attempt_key \in DOMAIN att
                                THEN DictDel(att, attempt_key) ELSE att,
                   lockouts |-> DictDel(lck, lockout_key)]
        ELSE [value |-> FALSE, attempts |-> att, lockouts |-> lck]

\* is_locked_out(identifier) run at time t on the maps att, lck:
\* the value returned and the maps it leaves
is_locked_out(att, lck, identifier, t) ==
    LET lockout_key == get_lockout_key(identifier)
        attempt_key == get_attempt_key(identifier)
    IN  IF lockout_key \in DOMAIN lck
        THEN IF t < lck[lockout_key]
             THEN [value |-> TRUE, attempts |-> att, lockouts |-> lck]
             ELSE [value |-> FALSE,
                   attempts |-> IF attempt_key \in DOMAIN att
                                THEN DictDel(att, attempt_key) ELSE att,
                   lockouts |-> DictDel(lck, lockout_key)]
        ELSE [value |-> FALSE, attempts |-> att, lockouts |-> lck]

\* the threshold test off by one
lockout_needed_late(count) == count > MAX_LOGIN_ATTEMPTS

\* "Check if we need to lock out"
lockout_needed(count) == count >= MAX_LOGIN_ATTEMPTS

\* record_failed_attempt that starts the count anew when the record is
\* older than the lockout duration
record_failed_attempt_window(att, lck, identifier, ip_address, user_id, t) ==
    LET attempt_key == get_attempt_key(identifier)
        fresh == [count |-> 0, first_attempt |-> t, last_attempt |-> t]
        att0 == IF attempt_key \notin DOMAIN att
                THEN DictSet(att, attempt_key, fresh)
                ELSE IF t - att[attempt_key].first_attempt
                            >= Minutes(LOGIN_LOCKOUT_DURATION_MINUTES)
                THEN DictSet(att, attempt_key, fresh)
                ELSE att
        rec == [att0[attempt_key] EXCEPT !.count = @ + 1, !.last_attempt = t]
        att1 == DictSet(att0, attempt_key, rec)
        failed == log_security_event("FAILED_LOGIN", user_id, ip_address,
                                     "Attempt #" \o ToString(rec.count))
        lockout_until == t + Minutes(LOGIN_LOCKOUT_DURATION_MINUTES)
    IN  IF lockout_needed(rec.count)
        THEN [value |-> TRUE, attempts |-> att1,
              lockouts |-> DictSet(lck, get_lockout_key(identifier), lockout_until),
              events |-> <<failed,
                           log_security_event("ACCOUNT_LOCKOUT", user_id, ip_address,
                               "Locked until " \o ToString(lockout_until))>>]
        ELSE [value |-> FALSE, attempts |-> att1, lockouts |-> lck,
              events |-> <<failed>>]

\* record_failed_attempt(identifier, ip_address, user_id) run at time t:
\* the value returned, the maps it leaves and the events it logs
record_failed_attempt(att, lck, identifier, ip_address, user_id, t) ==
    LET attempt_key == get_attempt_key(identifier)
        att0 == IF attempt_key \notin DOMAIN att
                THEN DictSet(att, attempt_key,
                             [count |-> 0, first_attempt |-> t, last_attempt |-> t])
                ELSE att
        rec == [att0[attempt_key] EXCEPT !.count = @ + 1, !.last_attempt = t]
        att1 == DictSet(att0, attempt_key, rec)
        failed == log_security_event("FAILED_LOGIN", user_id, ip_address,
                                     "Attempt #" \o ToString(rec.count))
        lockout_until == t + Minutes(LOGIN_LOCKOUT_DURATION_MINUTES)
    IN  IF lockout_needed(rec.count)
        THEN [value |-> TRUE, attempts |-> att1,
              lockouts |-> DictSet(lck, get_lockout_key(identifier), lockout_until),
              events |-> <<failed,
                           log_security_event("ACCOUNT_LOCKOUT", user_id, ip_address,
                               "Locked until " \o ToString(lockout_until))>>]
        ELSE [value |-> FALSE, attempts |-> att1, lockouts |-> lck,
              events |-> <<failed>>]

\* record_successful_attempt that clears the attempt record only
record_successful_attempt_keeps_lockout(att, lck, identifier, ip_address, user_id) ==
    LET attempt_key == get_attempt_key(identifier)
    IN  [attempts |-> IF attempt_key \in DOMAIN att
                      THEN DictDel(att, attempt_key) ELSE att,
         lockouts |-> lck,
         events |-> <<log_security_event("SUCCESSFUL_LOGIN", user_id, ip_address,
                                         "Login successful")>>]

\* record_successful_attempt(identifier, ip_address, user_id): the maps it
\* leaves and the event it logs
record_successful_attempt(att, lck, identifier, ip_address, user_id) ==
    LET attempt_key == get_attempt_key(identifier)
        lockout_key == get_lockout_key(identifier)
    IN  [attempts |-> IF attempt_key \in DOMAIN att
                      THEN DictDel(att, attempt_key) ELSE att,
         lockouts |-> IF lockout_key \in DOMAIN lck
                      THEN DictDel(lck, lockout_key) ELSE lck,
         events |-> <<log_security_event("SUCCESSFUL_LOGIN", user_id, ip_address,
                                         "Login successful")>>]

----------------------------------------------------------------------------
(* The tracker's states of an identifier (spec 4.3)                        *)

HasRecord(att, identifier) == get_attempt_key(identifier) \in DOMAIN att

HasLockout(lck, identifier) == get_lockout_key(identifier) \in DOMAIN lck

Count(att, identifier) ==
    IF HasRecord(att, identifier) THEN att[get_attempt_key(identifier)].count ELSE 0

Clean(att, lck, identifier) ==
    ~HasRecord(att, identifier) /\ ~HasLockout(lck, identifier)

\* the lockout of identifier is active at time t
LockedAt(lck, identifier, t) ==
    HasLockout(lck, identifier) /\ t < lck[get_lockout_key(identifier)]

\* the history variable after a handler that left the maps att, lck and in
\* which the identifiers of `failed` had a failure recorded
NextStreak(att, lck, failed) ==
    [i \in DOMAIN streak |->
        IF i \in failed THEN streak[i] + 1
        ELSE IF Clean(att, lck, i) THEN 0 ELSE streak[i]]

\* the tracker's maps, the user rows and the tokens issued so far, as the
\* handler of this step finds them
Snapshot ==
    [attempts |-> attempts, lockouts |-> lockouts, users |-> users, tokens |-> tokens,
     spent |-> spent]

----------------------------------------------------------------------------
(* The clock                                                               *)

\* time passes between two handlers, up to the time limit
Advance(limit) ==
    /\ \E d \in ClockSteps :
          /\ now + d <= limit
          /\ now' = now + d
    /\ UNCHANGED <<log, ret, pre, trackerVars, dbVars, tokenVars, threatVars,
                       monitorVars, handlerVars>>

Tick == Advance(MaxTime)

TickAuth == Advance(MaxAuthTime)

----------------------------------------------------------------------------
(* The tracker called directly, one call per step                          *)

Returned(op, identifier, value) ==
    [op |-> op, identifier |-> identifier, value |-> value, at |-> now]

IsLockedOut(identifier) ==
    \E r \in {is_locked_out(attempts, lockouts, identifier, now)} :
        /\ attempts' = r.attempts
        /\ lockouts' = r.lockouts
        /\ log' = <<>>
        /\ pre' = Snapshot
        /\ ret' = Returned("is_locked_out", identifier, r.value)
        /\ streak' = NextStreak(r.attempts, r.lockouts, {})
        /\ UNCHANGED <<now, dbVars, tokenVars, threatVars, monitorVars, handlerVars>>

RecordFailedAttempt(identifier) ==
    \E r \in {record_failed_attempt(attempts, lockouts, identifier, None, None, now)} :
        /\ Count(attempts, identifier) < MaxCount
        /\ attempts' = r.attempts
        /\ lockouts' = r.lockouts
        /\ log' = r.events
        /\ pre' = Snapshot
        /\ ret' = Returned("record_failed_attempt", identifier, r.value)
        /\ streak' = NextStreak(r.attempts, r.lockouts, {identifier})
        /\ UNCHANGED <<now, dbVars, tokenVars, threatVars, monitorVars, handlerVars>>

RecordSuccessfulAttempt(identifier) ==
    \E r \in {record_successful_attempt(attempts, lockouts, identifier, None, None)} :
        /\ attempts' = r.attempts
        /\ lockouts' = r.lockouts
        /\ log' = r.events
        /\ pre' = Snapshot
        /\ ret' = Returned("record_successful_attempt", identifier, None)
        /\ streak' = NextStreak(r.attempts, r.lockouts, {})
        /\ UNCHANGED <<now, dbVars, tokenVars, threatVars, monitorVars, handlerVars>>

----------------------------------------------------------------------------
(* auth.py: get_client_ip.  A header value is a sequence of characters;    *)
(* an absent header and an empty one are both falsy and are both <<>>.    *)

\* "".join(chars)
RECURSIVE Join(_)
Join(chars) == IF chars = <<>> THEN "" ELSE Head(chars) \o Join(Tail(chars))

\* value.split(",")[0]
FirstField(chars) ==
    IF \E i \in 1..Len(chars) : chars[i] = ","
    THEN SubSeq(chars, 1, (CHOOSE i \in 1..Len(chars) :
                              /\ chars[i] = ","
                              /\ \A j \in 1..(i - 1) : chars[j] # ",") - 1)
    ELSE chars

\* the white space of str.strip() and of "\s"
WhiteSpace(c) == c \in {" ", "\t", "\n", "\r", "\f"}

\* value.strip()
RECURSIVE Strip(_)
Strip(chars) ==
    IF chars = <<>> THEN chars
    ELSE IF WhiteSpace(Head(chars)) THEN Strip(Tail(chars))
    ELSE IF WhiteSpace(chars[Len(chars)]) THEN Strip(SubSeq(chars, 1, Len(chars) - 1))
    ELSE chars

\* a request with no client address
NoClient == [host |-> None]

get_client_ip(request) ==
    IF request.x_forwarded_for # <<>>
    THEN Join(Strip(FirstField(request.x_forwarded_for)))
    ELSE IF request.x_real_ip # <<>>
    THEN Join(request.x_real_ip)
    ELSE IF request.client # NoClient THEN request.client.host ELSE "unknown"

\* the requests of the model: a direct connection from 1.2.3.4, the same
\* address given by a proxy in X-Real-IP, and a request whose
\* X-Forwarded-For header starts with the text user:u1
Requests ==
    { [x_forwarded_for |-> <<>>, x_real_ip |-> <<>>, client |-> [host |-> "1.2.3.4"]],
      [x_forwarded_for |-> <<>>,
       x_real_ip |-> <<"1", ".", "2", ".", "3", ".", "4">>,
       client |-> [host |-> "10.0.0.1"]],
      [x_forwarded_for |-> <<" ", "u", "s", "e", "r", ":", "u", "1", " ", ",",
                             "1", ".", "2", ".", "3", ".", "4">>,
       x_real_ip |-> <<>>,
       client |-> [host |-> "10.0.0.1"]] }

----------------------------------------------------------------------------
(* auth.py: verify_password, authenticate_user                             *)

\* pwd_context.verify(plain_password, hashed_password)
verify_password(plain_password, hashed_password) ==
    hashed_password = pwd_hash(plain_password)

\* db.query(User).filter(User.email == email).first(), None when no row
find_user_by_email(usrs, email) ==
    IF \E u \in DOMAIN usrs : usrs[u].email = email
    THEN (CHOOSE u \in DOMAIN usrs : usrs[u].email = email)
    ELSE None

HTTP_423_LOCKED == 423

HTTPException(status_code, detail) ==
    [kind |-> "raise", status_code |-> status_code, detail |-> detail]

\* return value: False or the id of the user returned
Return(value) == [kind |-> "return", value |-> value]

user_key(user_id) == "user:" \o user_id

\* the tracker after one of its methods, for the history variable
Call(failed, r) == [failed |-> failed, attempts |-> r.attempts, lockouts |-> r.lockouts]

\* the lookup left out: no IP is ever found locked
lockout_check_skipped(att, lck, client_ip, t) ==
    [value |-> FALSE, attempts |-> att, lockouts |-> lck]

\* the lookup that decides whether authenticate_user goes on to the
\* credentials: "Check if IP is locked out"
lockout_check(att, lck, client_ip, t) == is_locked_out(att, lck, client_ip, t)

\* a deactivated account counted as one more failure of its user identifier
on_inactive_user_counts_failure(att, lck, client_ip, user, t) ==
    [attempts |-> record_failed_attempt(att, lck, user_key(user), client_ip, user, t).attempts,
     lockouts |-> record_failed_attempt(att, lck, user_key(user), client_ip, user, t).lockouts]

\* "Check if user account is locked": what the branch for a user that is not
\* active does to the tracker, which is nothing
on_inactive_user(att, lck, client_ip, user, t) ==
    [attempts |-> att, lockouts |-> lck]

\* authenticate_user(db, email, password, request) run at time t: what it
\* returns or raises, the tracker maps and user rows it leaves, the events
\* it logs, its tracker calls in order, and whether it queried the users
\* table and whether it verified the password
authenticate_user(att, lck, usrs, email, password, request, t) ==
    LET client_ip == get_client_ip(request)
        chk == lockout_check(att, lck, client_ip, t)
        user == find_user_by_email(usrs, email)
        ipfail == record_failed_attempt(chk.attempts, chk.lockouts,
                                        client_ip, client_ip, None, t)
        ufail == record_failed_attempt(chk.attempts, chk.lockouts,
                                       user_key(user), client_ip, user, t)
        ok == record_successful_attempt(chk.attempts, chk.lockouts,
                                        user_key(user), client_ip, user)
        inactive == on_inactive_user(chk.attempts, chk.lockouts, client_ip, user, t)
        base == [client_ip |-> client_ip, users |-> usrs]
    IN  IF chk.value
        THEN base @@
             [outcome |-> HTTPException(HTTP_423_LOCKED,
                  "Too many failed login attempts. Try again in "
                      \o ToString(LOGIN_LOCKOUT_DURATION_MINUTES) \o " minutes."),
              attempts |-> chk.attempts, lockouts |-> chk.lockouts,
              events |-> <<log_security_event("LOCKOUT_ACCESS_ATTEMPT", None,
                                              client_ip, None)>>,
              calls |-> <<Call({}, chk)>>,
              queried |-> FALSE, verified |-> FALSE]
        ELSE IF user = None
        THEN base @@
             [outcome |-> Return(False),
              attempts |-> ipfail.attempts, lockouts |-> ipfail.lockouts,
              events |-> ipfail.events \o
                         <<log_security_event("LOGIN_NONEXISTENT_USER", None,
                                              client_ip, "Email: " \o email)>>,
              calls |-> <<Call({}, chk), Call({client_ip}, ipfail)>>,
              queried |-> TRUE, verified |-> FALSE]
        ELSE IF ~usrs[user].is_active
        THEN base @@
             [outcome |-> HTTPException(HTTP_423_LOCKED, "Account is deactivated"),
              attempts |-> inactive.attempts, lockouts |-> inactive.lockouts,
              events |-> <<log_security_event("LOGIN_INACTIVE_USER", user,
                                              client_ip, None)>>,
              calls |-> <<Call({}, chk)>>,
              queried |-> TRUE, verified |-> FALSE]
        ELSE IF ~verify_password(password, usrs[user].hashed_password)
        THEN base @@
             [outcome |-> IF ufail.value
                          THEN HTTPException(HTTP_423_LOCKED,
                              "Account temporarily locked due to too many failed attempts. Try again in "
                                  \o ToString(LOGIN_LOCKOUT_DURATION_MINUTES) \o " minutes.")
                          ELSE Return(False),
              attempts |-> ufail.attempts, lockouts |-> ufail.lockouts,
              events |-> ufail.events,
              calls |-> <<Call({}, chk), Call({user_key(user)}, ufail)>>,
              queried |-> TRUE, verified |-> TRUE]
        ELSE [client_ip |-> client_ip,
              users |-> [usrs EXCEPT ![user].last_login = t,
                                     ![user].last_login_ip = client_ip],
              outcome |-> Return(user),
              attempts |-> ok.attempts, lockouts |-> ok.lockouts,
              events |-> ok.events,
              calls |-> <<Call({}, chk), Call({}, ok)>>,
              queried |-> TRUE, verified |-> TRUE]

\* the history variable after the tracker calls of one handler, in order
RECURSIVE StreakAfter(_, _)
StreakAfter(s, calls) ==
    IF calls = <<>> THEN s
    ELSE StreakAfter(
             [i \in DOMAIN s |->
                 IF i \in Head(calls).failed THEN s[i] + 1
                 ELSE IF Clean(Head(calls).attempts, Head(calls).lockouts, i)
                      THEN 0 ELSE s[i]],
             Tail(calls))

\* one call of authenticate_user
Authenticate(email, password, request) ==
    \E r \in {authenticate_user(attempts, lockouts, users, email, password, request, now)} :
        /\ \A i \in Identifiers :
              Count(r.attempts, i) > Count(attempts, i) => Count(attempts, i) < MaxCount
        /\ attempts' = r.attempts
        /\ lockouts' = r.lockouts
        /\ users' = r.users
        /\ spent' = spent
        /\ log' = r.events
        /\ pre' = Snapshot
        /\ ret' = [op |-> "authenticate_user", email |-> email, password |-> password,
                   client_ip |-> r.client_ip, outcome |-> r.outcome,
                   queried |-> r.queried, verified |-> r.verified, at |-> now]
        /\ streak' = StreakAfter(streak, r.calls)
        /\ UNCHANGED <<now, tokenVars, threatVars, monitorVars, handlerVars>>

----------------------------------------------------------------------------
(* The token service: jose's jwt.encode and jwt.decode as auth.py and      *)
(* main.py call them, create_access_token, create_refresh_token            *)

\* timedelta(days=d), in seconds
Days(d) == Minutes(d * 24 * 60)

\* the HS256 signature of claims under key: only the holder of key makes it
Sign(algorithm, key, claims) == <<algorithm, key, claims>>

\* jwt.encode(claims, key, algorithm)
jwt_encode(claims, key, algorithm) ==
    [payload |-> claims, signature |-> Sign(algorithm, key, claims)]

\* jwt.decode that does not look at the exp claim
jwt_decode_no_exp(token, key, algorithm, t) ==
    IF token.signature # Sign(algorithm, key, token.payload)
    THEN [error |-> "Signature verification failed.", payload |-> None]
    ELSE [error |-> None, payload |-> token.payload]

\* jwt.decode(token, key, algorithms=[algorithm]) at time t: the payload, or
\* the JWTError raised for a bad signature or for an exp before t
jwt_decode(token, key, algorithm, t) ==
    IF token.signature # Sign(algorithm, key, token.payload)
    THEN [error |-> "Signature verification failed.", payload |-> None]
    ELSE IF "exp" \in DOMAIN token.payload /\ token.payload.exp < t
    THEN [error |-> "Signature has expired.", payload |-> None]
    ELSE [error |-> None, payload |-> token.payload]

\* payload.get(name)
Get(payload, name) == IF name \in DOMAIN payload THEN payload[name] ELSE None

\* create_access_token(data, expires_delta) at time t; expires_delta is in
\* seconds, and 0 stands for the falsy values None and timedelta(0)
create_access_token(data, expires_delta, t) ==
    LET expire == IF expires_delta # 0
                  THEN t + expires_delta
                  ELSE t + Minutes(ACCESS_TOKEN_EXPIRE_MINUTES)
    IN  jwt_encode([exp |-> expire, type |-> "access"] @@ data, SECRET_KEY, ALGORITHM)

\* create_refresh_token(data) at time t
create_refresh_token(data, t) ==
    jwt_encode([exp |-> t + Days(REFRESH_TOKEN_EXPIRE_DAYS), type |-> "refresh"] @@ data,
               SECRET_KEY, ALGORITHM)

----------------------------------------------------------------------------
(* main.py: login, refresh_token                                           *)

HTTP_401_UNAUTHORIZED == 401
HTTP_500_INTERNAL_SERVER_ERROR == 500

\* the response body of login and of refresh_token
TokenPair(user_id, t) ==
    [access_token |-> create_access_token([sub |-> user_id],
                                          Minutes(ACCESS_TOKEN_EXPIRE_MINUTES), t),
     refresh_token |-> create_refresh_token([sub |-> user_id], t),
     token_type |-> "bearer"]

\* the tokens made whether or not the commit succeeded
tokens_created_before_commit(commit_ok, pair) ==
    {pair.access_token, pair.refresh_token}

\* "Create tokens": the statements after the try block of db.commit() run
\* only when it raised nothing
tokens_created(commit_ok, pair) ==
    IF commit_ok THEN {pair.access_token, pair.refresh_token} ELSE {}

\* login(request, form_data, db) run at time t; commit_ok says whether
\* db.commit() succeeds.  What authenticate_user leaves, with the handler's
\* own outcome, the user rows after commit or rollback, and the tokens made.
login(att, lck, usrs, username, password, request, commit_ok, t) ==
    LET a == authenticate_user(att, lck, usrs, username, password, request, t)
    IN  IF a.outcome.kind = "raise"
        THEN a @@ [issued |-> {}]
        ELSE IF a.outcome.value = False
        THEN [outcome |-> HTTPException(HTTP_401_UNAUTHORIZED,
                                        "Incorrect email or password"),
              issued |-> {}] @@ a
        ELSE IF ~commit_ok
        THEN [outcome |-> HTTPException(HTTP_500_INTERNAL_SERVER_ERROR,
                                        "Database error during login"),
              users |-> usrs,
              issued |-> tokens_created(FALSE, TokenPair(a.outcome.value, t))] @@ a
        ELSE LET pair == TokenPair(a.outcome.value, t)
             IN  [outcome |-> Return(pair),
                  issued |-> tokens_created(TRUE, pair)] @@ a

\* the row looked up by its email in place of its id
find_user_by_id_as_email(usrs, user_id) ==
    IF \E u \in DOMAIN usrs : usrs[u].email = user_id
    THEN CHOOSE u \in DOMAIN usrs : usrs[u].email = user_id
    ELSE None

\* db.query(User).filter(User.id == user_id).first(), None when no row
find_user_by_id(usrs, user_id) == IF user_id \in DOMAIN usrs THEN user_id ELSE None

\* refresh_token that refuses a user who is not active
refresh_token_checks_active(usrs, token, t) ==
    LET decoded == jwt_decode(token, SECRET_KEY, ALGORITHM, t)
        user_id == Get(decoded.payload, "sub")
        user == find_user_by_id(usrs, user_id)
        invalid == [outcome |-> HTTPException(HTTP_401_UNAUTHORIZED,
                                              "Invalid refresh token"),
                    issued |-> {}]
    IN  IF decoded.error # None THEN invalid
        ELSE IF user_id = None THEN invalid
        ELSE IF user = None THEN invalid
        ELSE IF ~usrs[user].is_active THEN invalid
        ELSE LET pair == TokenPair(user, t)
             IN  [outcome |-> Return(pair),
                  issued |-> {pair.access_token, pair.refresh_token}]

\* refresh_token(request, refresh_token, db) run at time t: every exception
\* of the body, the HTTPExceptions it raises itself included, is caught and
\* raised again as 401 "Invalid refresh token"
refresh_token(usrs, token, t) ==
    LET decoded == jwt_decode(token, SECRET_KEY, ALGORITHM, t)
        user_id == Get(decoded.payload, "sub")
        user == find_user_by_id(usrs, user_id)
        invalid == [outcome |-> HTTPException(HTTP_401_UNAUTHORIZED,
                                              "Invalid refresh token"),
                    issued |-> {}]
    IN  IF decoded.error # None THEN invalid
        ELSE IF user_id = None THEN invalid
        ELSE IF user = None THEN invalid
        ELSE LET pair == TokenPair(user, t)
             IN  [outcome |-> Return(pair),
                  issued |-> {pair.access_token, pair.refresh_token}]

\* the exception get_current_user raises for every token it rejects
credentials_exception ==
    HTTPException(HTTP_401_UNAUTHORIZED, "Could not validate credentials")
        @@ [headers |-> [WWW_Authenticate |-> "Bearer"]]

\* the test of the payload without the test of the token's kind
bad_token_format_no_type(user_id, token_type) == user_id = None

\* "if user_id is None or token_type != 'access'"
bad_token_format(user_id, token_type) == user_id = None \/ token_type # "access"

\* the missing user reported as such, the way refresh_token words it
user_not_found_reported(user_id) ==
    [outcome |-> HTTPException(HTTP_401_UNAUTHORIZED, "User not found"),
     events |-> <<log_security_event("USER_NOT_FOUND", user_id, None, None)>>]

\* "if user is None": the event logged and the exception raised
user_not_found(user_id) ==
    [outcome |-> credentials_exception,
     events |-> <<log_security_event("USER_NOT_FOUND", user_id, None, None)>>]

\* get_current_user(token, db) run at time t: the user returned or the
\* exception raised, and the events logged
get_current_user(usrs, token, t) ==
    LET decoded == jwt_decode(token, SECRET_KEY, ALGORITHM, t)
        user_id == Get(decoded.payload, "sub")
        token_type == Get(decoded.payload, "type")
        user == find_user_by_id(usrs, user_id)
    IN  IF decoded.error # None
        THEN [outcome |-> credentials_exception,
              events |-> <<log_security_event("JWT_ERROR", None, None, decoded.error)>>]
        ELSE IF bad_token_format(user_id, token_type)
        THEN [outcome |-> credentials_exception,
              events |-> <<log_security_event("INVALID_TOKEN", None, None,
                                              "Invalid token format")>>]
        ELSE IF user = None THEN user_not_found(user_id)
        ELSE [outcome |-> Return(user), events |-> <<>>]

\* tokens the server never issued: one signed with another key, and one
\* that is no JWT at all
ForeignTokens ==
    { jwt_encode([sub |-> "u1", exp |-> Days(2 * REFRESH_TOKEN_EXPIRE_DAYS),
                  type |-> "refresh"], "not-the-secret-key", ALGORITHM),
      [payload |-> [sub |-> "u1"], signature |-> <<>>] }

\* tokens with the server's signature that login does not make: the access
\* token of a user whose row is gone, and one with no subject
StrayTokens ==
    { jwt_encode([sub |-> "u9", exp |-> Days(2 * REFRESH_TOKEN_EXPIRE_DAYS),
                  type |-> "access"], SECRET_KEY, ALGORITHM),
      jwt_encode([exp |-> Days(2 * REFRESH_TOKEN_EXPIRE_DAYS), type |-> "access"],
                 SECRET_KEY, ALGORITHM) }

\* the clock of the token runs: MaxTime seconds from the start, and MaxTime
\* seconds from the time a refresh token issued at the start expires
TokenClock(t) ==
    \/ t <= MaxTime
    \/ /\ t >= Days(REFRESH_TOKEN_EXPIRE_DAYS)
       /\ t <= Days(REFRESH_TOKEN_EXPIRE_DAYS) + MaxTime

TickToken ==
    /\ \E d \in ClockSteps \cup {Days(REFRESH_TOKEN_EXPIRE_DAYS)} :
          /\ TokenClock(now + d)
          /\ now' = now + d
    /\ UNCHANGED <<log, ret, pre, trackerVars, dbVars, tokenVars, threatVars,
                       monitorVars, handlerVars>>

\* one request to POST /auth/login
Login(username, password, request, commit_ok) ==
    \E r \in {login(attempts, lockouts, users, username, password, request,
                    commit_ok, now)} :
        /\ \A i \in Identifiers :
              Count(r.attempts, i) > Count(attempts, i) => Count(attempts, i) < MaxCount
        /\ Cardinality(tokens \cup r.issued) <= MaxTokens
        /\ attempts' = r.attempts
        /\ lockouts' = r.lockouts
        /\ users' = r.users
        /\ spent' = spent
        /\ tokens' = tokens \cup r.issued
        /\ log' = r.events
        /\ pre' = Snapshot
        /\ ret' = [op |-> "login", email |-> username, password |-> password,
                   client_ip |-> r.client_ip, outcome |-> r.outcome,
                   commit_ok |-> commit_ok, at |-> now]
        /\ streak' = StreakAfter(streak, r.calls)
        /\ UNCHANGED <<now, threatVars, monitorVars, handlerVars>>

\* one request to POST /auth/refresh
Refresh(token) ==
    \E r \in {refresh_token(users, token, now)} :
        /\ Cardinality(tokens \cup r.issued) <= MaxTokens
        /\ tokens' = tokens \cup r.issued
        /\ log' = <<>>
        /\ pre' = Snapshot
        /\ ret' = [op |-> "refresh_token", token |-> token, outcome |-> r.outcome,
                   at |-> now]
        /\ UNCHANGED <<now, trackerVars, dbVars, threatVars, monitorVars, handlerVars>>

\* one request to an endpoint that depends on get_current_user
GetCurrentUser(token) ==
    \E r \in {get_current_user(users, token, now)} :
        /\ log' = r.events
        /\ pre' = Snapshot
        /\ ret' = [op |-> "get_current_user", token |-> token, outcome |-> r.outcome,
                   at |-> now]
        /\ UNCHANGED <<now, trackerVars, dbVars, tokenVars, threatVars, monitorVars, handlerVars>>

\* the subjects tokens are made for: the active user, the deactivated
\* user, and an id with no row
Subjects == {"u1", "u2", "u9"}

\* the expires_delta given to create_access_token, in seconds: none (0),
\* a second, a quarter of an hour
Ttls == {0, 1, Minutes(15)}

\* one call of create_access_token or of create_refresh_token, which takes
\* no expires_delta, for a subject
Issue(kind, subject, ttl) ==
    \E token \in {IF kind = "access"
                  THEN create_access_token([sub |-> subject], ttl, now)
                  ELSE create_refresh_token([sub |-> subject], now)} :
        /\ Cardinality(tokens) < MaxIssued
        /\ tokens' = tokens \cup {token}
        /\ log' = <<>>
        /\ pre' = Snapshot
        /\ ret' = [op |-> "issue", kind |-> kind, subject |-> subject, ttl |-> ttl,
                   token |-> token, at |-> now]
        /\ UNCHANGED <<now, trackerVars, dbVars, threatVars, monitorVars, handlerVars>>

----------------------------------------------------------------------------
(* monitoring.py: class ThreatDetector.  Paths and query strings are       *)
(* sequences of characters, and each pattern of suspicious_patterns is     *)
(* searched as re.search(pattern, path + query, re.IGNORECASE) does.       *)

max_failed_attempts == 5
max_requests_per_minute == 60
\* deque(maxlen=100)
request_patterns_maxlen == 100
\* timedelta(minutes=30), the age at which record_failed_login drops a failure
failed_attempts_window == 30

UpperCase == <<"A", "B", "C", "D", "E", "F", "G", "H", "I", "J", "K", "L", "M",
               "N", "O", "P", "Q", "R", "S", "T", "U", "V", "W", "X", "Y", "Z">>
LowerCase == <<"a", "b", "c", "d", "e", "f", "g", "h", "i", "j", "k", "l", "m",
               "n", "o", "p", "q", "r", "s", "t", "u", "v", "w", "x", "y", "z">>

\* re.IGNORECASE: the text with its ASCII capitals in lower case
LowerOf ==
    [c \in {UpperCase[k] : k \in 1..Len(UpperCase)} |->
        LowerCase[CHOOSE k \in 1..Len(UpperCase) : UpperCase[k] = c]]

Lower(chars) ==
    [n \in 1..Len(chars) |->
        IF chars[n] \in DOMAIN LowerOf THEN LowerOf[chars[n]] ELSE chars[n]]

\* the literal lit occurs in text at position n
Occurs(text, lit, n) ==
    /\ n >= 1
    /\ n + Len(lit) - 1 <= Len(text)
    /\ SubSeq(text, n, n + Len(lit) - 1) = lit

\* "." of a regular expression: any character but a newline
AnyChar(c) == c # "\n"

\* the characters a gap of the class may hold: "." , "\s" , or none at all
InClass(class, c) ==
    CASE class = "." -> AnyChar(c)
      [] class = "\\s" -> WhiteSpace(c)
      [] class = "" -> FALSE

\* re.search of <first><class>*<last>
SearchGapped(text, first, class, last) ==
    \E n \in 1..Len(text) :
        /\ Occurs(text, first, n)
        /\ \E m \in (n + Len(first))..Len(text) :
              /\ Occurs(text, last, m)
              /\ \A k \in (n + Len(first))..(m - 1) : InClass(class, text[k])

suspicious_patterns ==
    << "(\\.\\./){2,}", "<script.*?>", "union.*select", "eval\\s*\\(", "exec\\s*\\(" >>

\* re.search(pattern, text, re.IGNORECASE) for the patterns of the list
re_search(pattern, text) ==
    \E low \in {Lower(text)} :
        CASE pattern = "(\\.\\./){2,}" ->
                 SearchGapped(low, <<".", ".", "/">>, "", <<".", ".", "/">>)
          [] pattern = "<script.*?>" ->
                 SearchGapped(low, <<"<", "s", "c", "r", "i", "p", "t">>, ".", <<">">>)
          [] pattern = "union.*select" ->
                 SearchGapped(low, <<"u", "n", "i", "o", "n">>, ".",
                              <<"s", "e", "l", "e", "c", "t">>)
          [] pattern = "eval\\s*\\(" ->
                 SearchGapped(low, <<"e", "v", "a", "l">>, "\\s", <<"(">>)
          [] pattern = "exec\\s*\\(" ->
                 SearchGapped(low, <<"e", "x", "e", "c">>, "\\s", <<"(">>)

SecurityEvent(event_type, user_id, ip_address, severity, description, context, t) ==
    [event_type |-> event_type, user_id |-> user_id, ip_address |-> ip_address,
     severity |-> severity, description |-> description, context |-> context,
     timestamp |-> t]

_get_client_ip(request) ==
    IF request.x_forwarded_for # <<>>
    THEN Join(Strip(FirstField(request.x_forwarded_for)))
    ELSE IF request.x_real_ip # <<>>
    THEN Join(request.x_real_ip)
    ELSE IF request.client # NoClient THEN request.client.host ELSE "unknown"

\* the events of _check_malicious_patterns for the patterns from the n-th on
RECURSIVE MaliciousFrom(_, _, _, _, _)
MaliciousFrom(n, request, user_id, ip_address, t) ==
    IF n > Len(suspicious_patterns) THEN <<>>
    ELSE (IF re_search(suspicious_patterns[n], request.path \o request.query)
          THEN <<SecurityEvent("SUSPICIOUS_ACTIVITY", user_id, ip_address, "HIGH",
                     "Malicious pattern detected: " \o suspicious_patterns[n],
                     [path |-> request.path, query |-> request.query], t)>>
          ELSE <<>>)
         \o MaliciousFrom(n + 1, request, user_id, ip_address, t)

_check_malicious_patterns(request, user_id, ip_address, t) ==
    MaliciousFrom(1, request, user_id, ip_address, t)

\* defaultdict lookup: d[k], the default when k is no key yet
DefaultGet(d, k, default) == IF k \in DOMAIN d THEN d[k] ELSE default

\* deque.append on a deque of bounded length: the oldest entry is dropped
\* when the deque is full
DequeAppend(q, x, maxlen) ==
    IF Len(q) >= maxlen THEN Tail(q) \o <<x>> ELSE q \o <<x>>

\* [x for x in list if x > cutoff]
RECURSIVE After(_, _)
After(list, cutoff) ==
    IF list = <<>> THEN <<>>
    ELSE (IF Head(list) > cutoff THEN <<Head(list)>> ELSE <<>>)
         \o After(Tail(list), cutoff)

\* the rate test that fires at the limit itself
rate_limit_exceeded_at_limit(count) == count >= max_requests_per_minute

\* "if len(recent_requests) > self.max_requests_per_minute"
rate_limit_exceeded(count) == count > max_requests_per_minute

\* the threshold test that needs one failure more
threshold_exceeded_late(count) == count > max_failed_attempts

\* "Check if threshold exceeded"
threshold_exceeded(count) == count >= max_failed_attempts

\* analyze_request(request, user_id) run at time t: the events returned and
\* the request windows and suspicious set it leaves
analyze_request(rp, susp, blocked, request, user_id, t) ==
    LET ip_address == _get_client_ip(request)
        unauthorized ==
            IF ip_address \in blocked
            THEN <<SecurityEvent("UNAUTHORIZED_ACCESS", None, ip_address, "HIGH",
                                 "Request from blocked IP address", None, t)>>
            ELSE <<>>
        window == DequeAppend(DefaultGet(rp, ip_address, <<>>), t,
                              request_patterns_maxlen)
        minute_ago == t - Minutes(1)
        recent_requests == After(window, minute_ago)
        limited == rate_limit_exceeded(Len(recent_requests))
        rate == IF limited
                THEN <<SecurityEvent("RATE_LIMIT_EXCEEDED", user_id, ip_address, "MEDIUM",
                           "Rate limit exceeded: " \o ToString(Len(recent_requests))
                               \o " requests/minute", None, t)>>
                ELSE <<>>
    IN  [ip_address |-> ip_address,
         events |-> unauthorized \o rate
                        \o _check_malicious_patterns(request, user_id, ip_address, t),
         request_patterns |-> DictSet(rp, ip_address, window),
         suspicious_ips |-> IF limited THEN susp \cup {ip_address} ELSE susp]

\* the detector taking an IP off the blocked set when its failures have
\* left the window
record_failed_login_unblocks(fa, blocked, ip_address, t) ==
    LET kept == After(DefaultGet(fa, ip_address, <<>>) \o <<t>>,
                      t - Minutes(failed_attempts_window))
        over == threshold_exceeded(Len(kept))
    IN  [value |-> over,
         failed_attempts |-> DictSet(fa, ip_address, kept),
         blocked_ips |-> IF over THEN blocked \cup {ip_address}
                         ELSE blocked \ {ip_address}]

\* record_failed_login(ip_address) run at time t: the value returned and the
\* failure lists and blocked set it leaves
record_failed_login(fa, blocked, ip_address, t) ==
    LET kept == After(DefaultGet(fa, ip_address, <<>>) \o <<t>>,
                      t - Minutes(failed_attempts_window))
        over == threshold_exceeded(Len(kept))
    IN  [value |-> over,
         failed_attempts |-> DictSet(fa, ip_address, kept),
         blocked_ips |-> IF over THEN blocked \cup {ip_address} ELSE blocked]

\* the requests the detector analyses: a plain one and a path traversal
\* from 1.2.3.4, and a query with UNION SELECT in mixed case from 5.6.7.8
ThreatRequests ==
    { [x_forwarded_for |-> <<>>, x_real_ip |-> <<>>, client |-> [host |-> "1.2.3.4"],
       method |-> "GET", path |-> <<"/", "p", "i", "n", "g">>, query |-> <<>>],
      [x_forwarded_for |-> <<>>, x_real_ip |-> <<>>, client |-> [host |-> "1.2.3.4"],
       method |-> "GET",
       path |-> <<"/", ".", ".", "/", ".", ".", "/", "e", "t", "c">>, query |-> <<>>],
      [x_forwarded_for |-> <<"5", ".", "6", ".", "7", ".", "8">>, x_real_ip |-> <<>>,
       client |-> [host |-> "10.0.0.1"],
       method |-> "GET",
       path |-> <<"/", "s">>,
       query |-> <<"q", "=", "1", " ", "U", "n", "i", "o", "n", " ",
                   "S", "E", "L", "E", "C", "T">>] }

\* the IPs record_failed_login is called for
FailedLoginIPs == {"1.2.3.4"}

\* the events handed to the logger directly
MonitorEvents ==
    {SecurityEvent("LOGIN_FAILED", "u1", "1.2.3.4", "MEDIUM", "Login failed", None, 0)}

\* the requests that pass the middleware: the plain one and the path
\* traversal from 1.2.3.4
MonitorRequests == {q \in ThreatRequests : q.client.host = "1.2.3.4"}

\* the request handlers of the model
Handlers == 1..MaxHandlers

\* the detector's and the monitor's state as the handler of this step finds it
MonitorSnapshot ==
    [failed_attempts |-> failed_attempts, request_patterns |-> request_patterns,
     suspicious_ips |-> suspicious_ips, blocked_ips |-> blocked_ips,
     stream |-> stream, metrics |-> metrics, alerts |-> alerts,
     endpoint_stats |-> endpoint_stats, security_logs |-> security_logs]

\* the detector's state as the handler of this step finds it
ThreatSnapshot ==
    [failed_attempts |-> failed_attempts, request_patterns |-> request_patterns,
     suspicious_ips |-> suspicious_ips, blocked_ips |-> blocked_ips]

TickThreat == Advance(MaxAuthTime)

\* the history variable with the time t added to the list of ip under kind
Seen(kind, ip, t) ==
    [seen EXCEPT ![kind] = DictSet(@, ip, DefaultGet(@, ip, <<>>) \o <<t>>)]

\* one call of ThreatDetector.analyze_request for an IP that has had fewer
\* than limit requests
Analyze(request, limit) ==
    \E r \in {analyze_request(request_patterns, suspicious_ips, blocked_ips,
                              request, None, now)} :
        /\ Len(DefaultGet(request_patterns, r.ip_address, <<>>)) < limit
        /\ request_patterns' = r.request_patterns
        /\ suspicious_ips' = r.suspicious_ips
        /\ seen' = Seen("requests", r.ip_address, now)
        /\ log' = <<>>
        /\ pre' = ThreatSnapshot
        /\ ret' = [op |-> "analyze_request", request |-> request,
                   ip_address |-> r.ip_address, value |-> r.events, at |-> now]
        /\ UNCHANGED <<now, failed_attempts, blocked_ips, trackerVars, dbVars, tokenVars,
                       monitorVars, handlerVars>>

AnalyzeRequest(request) == Analyze(request, MaxRequests)

\* a request of a burst: one more of up to MaxBurst requests of one IP
AnalyzeBurst(request) == Analyze(request, MaxBurst)

\* between two requests of a burst half a minute or a minute passes
TickBurst ==
    /\ \E d \in {Minutes(1) \div 2, Minutes(1)} :
          /\ now + d <= MaxBurstTime
          /\ now' = now + d
    /\ UNCHANGED <<log, ret, pre, trackerVars, dbVars, tokenVars, threatVars,
                       monitorVars, handlerVars>>

\* one call of ThreatDetector.record_failed_login
RecordFailedLogin(ip_address) ==
    \E r \in {record_failed_login(failed_attempts, blocked_ips, ip_address, now)} :
        /\ Len(DefaultGet(failed_attempts, ip_address, <<>>)) < MaxFailures
        /\ failed_attempts' = r.failed_attempts
        /\ blocked_ips' = r.blocked_ips
        /\ seen' = Seen("failures", ip_address, now)
        /\ log' = <<>>
        /\ pre' = ThreatSnapshot
        /\ ret' = [op |-> "record_failed_login", ip_address |-> ip_address,
                   value |-> r.value, at |-> now]
        /\ UNCHANGED <<now, request_patterns, suspicious_ips, trackerVars, dbVars,
                       tokenVars, monitorVars, handlerVars>>

----------------------------------------------------------------------------
(* monitoring.py: class PerformanceMonitor.  Response times are whole      *)
(* seconds, usage figures whole per cent; an absent figure (None) is <<>>  *)
(* and a present one is <<figure>>.                                        *)

metrics_maxlen == 1000
slow_response_threshold == 2
high_memory_threshold == 80
high_cpu_threshold == 80

PerformanceMetric(endpoint, method, response_time, status_code, user_id, memory_usage, cpu_usage, t) ==
    [endpoint |-> endpoint, method |-> method, response_time |-> response_time,
     status_code |-> status_code, user_id |-> user_id,
     memory_usage |-> memory_usage, cpu_usage |-> cpu_usage, timestamp |-> t]

\* the alerts _check_performance_alerts appends for a metric
_check_performance_alerts(metric) ==
    (IF metric.response_time > slow_response_threshold
     THEN <<[type |-> "SLOW_RESPONSE", endpoint |-> metric.endpoint,
             response_time |-> metric.response_time,
             timestamp |-> metric.timestamp]>>
     ELSE <<>>)
    \o (IF metric.memory_usage # <<>> /\ metric.memory_usage[1] > high_memory_threshold
        THEN <<[type |-> "HIGH_MEMORY", memory_usage |-> metric.memory_usage[1],
                timestamp |-> metric.timestamp]>>
        ELSE <<>>)
    \o (IF metric.cpu_usage # <<>> /\ metric.cpu_usage[1] > high_cpu_threshold
        THEN <<[type |-> "HIGH_CPU", cpu_usage |-> metric.cpu_usage[1],
                timestamp |-> metric.timestamp]>>
        ELSE <<>>)

\* record_request(metric): the samples, endpoint times and alerts it leaves
record_request(mts, stats, alts, metric) ==
    LET key == metric.method \o " " \o Join(metric.endpoint)
    IN  [metrics |-> DequeAppend(mts, metric, metrics_maxlen),
         endpoint_stats |->
             DictSet(stats, key, DefaultGet(stats, key, <<>>) \o <<metric.response_time>>),
         alerts |-> alts \o _check_performance_alerts(metric)]

\* a line handed to a logger.  The handlers of the logging library catch a
\* failed write themselves (Handler.handleError), so the line is lost and
\* the call returns.
logger_write(strm, stream_ok, logger, level, message, about) ==
    IF stream_ok
    THEN strm \o <<[logger |-> logger, level |-> level, message |-> message,
                    about |-> about]>>
    ELSE strm

\* get_system_metrics(): the figures psutil gives, or {} after logging the
\* error when psutil fails
get_system_metrics(strm, stream_ok, psutil_ok, sample) ==
    IF psutil_ok
    THEN [value |-> [cpu_percent |-> <<sample.cpu_percent>>,
                     memory_percent |-> <<sample.memory_percent>>],
          stream |-> strm]
    ELSE [value |-> [cpu_percent |-> <<>>, memory_percent |-> <<>>],
          stream |-> logger_write(strm, stream_ok, "performance", "ERROR",
                                  "Error getting system metrics", None)]

\* the psutil readings of the model
Samples == {[cpu_percent |-> 10, memory_percent |-> 90]}

----------------------------------------------------------------------------
(* monitoring.py: class SecurityLogger                                     *)

Raise(exc) == [kind |-> "raise", exc |-> exc]

\* the failures of building the SecurityLog row and of db.add
StagingFaults == {"SQLAlchemyError"}

\* a handler that catches operating system errors only
except_OSError(exc) == exc \in {"OSError"}

\* "except Exception as e": every failure of the try block is an Exception
except_Exception(exc) == exc \in StagingFaults \cup {"OSError"}

\* the row staged for the security_logs table
SecurityLog(event) ==
    [user_id |-> event.user_id, ip_address |-> event.ip_address,
     event_type |-> event.event_type, event_description |-> event.description,
     severity |-> event.severity, context |-> event.context]

\* SecurityLogger.log_security_event(event, db): db is <<>> for None and
\* <<rows>> for a session with the rows staged in it; fault is None or the
\* failure of the staging.  Gives the outcome, the stream and the session
\* it leaves.
SecurityLogger_log_security_event(strm, event, db, stream_ok, fault) ==
    LET written == logger_write(strm, stream_ok, "security", "INFO",
                                event.event_type, event.ip_address)
        raised == IF db # <<>> /\ fault # None THEN fault ELSE None
        caught == raised # None /\ except_Exception(raised)
    IN  [outcome |-> IF raised # None /\ ~caught THEN Raise(raised) ELSE Return(None),
         stream |-> IF caught
                    THEN logger_write(written, stream_ok, "security", "ERROR",
                                      "Failed to log security event", raised)
                    ELSE written,
         db |-> IF db # <<>> /\ raised = None
                THEN <<db[1] \o <<SecurityLog(event)>>>>
                ELSE db]

\* a new session of get_db(): nothing staged
SessionLocal == <<<<>>>>

\* log_performance_metric(metric)
log_performance_metric(mts, stats, alts, strm, metric, stream_ok) ==
    LET r == record_request(mts, stats, alts, metric)
    IN  [metrics |-> r.metrics, endpoint_stats |-> r.endpoint_stats,
         alerts |-> r.alerts,
         stream |-> logger_write(strm, stream_ok, "performance", "INFO",
                                 metric.method \o " " \o Join(metric.endpoint),
                                 metric.status_code)]

\* list[-n:]
LastN(list, n) ==
    IF Len(list) <= n THEN list ELSE SubSeq(list, Len(list) - n + 1, Len(list))

\* the number of rows with the value v under the field f
CountRows(rows, f, v) == Cardinality({i \in 1..Len(rows) : rows[i][f] = v})

\* dict(defaultdict(int)) after counting the rows by the field f
CountBy(rows, f) ==
    [v \in {rows[i][f] : i \in 1..Len(rows)} |-> CountRows(rows, f, v)]

Hours(h) == Minutes(h * 60)

dashboard_alerts == 10

\* the rows with created_at >= cutoff, the hour of the day added
RECURSIVE RecentEvents(_, _)
RecentEvents(table, cutoff) ==
    IF table = <<>> THEN <<>>
    ELSE (IF Head(table).created_at >= cutoff
          THEN <<[event_type |-> Head(table).event_type,
                  severity |-> Head(table).severity,
                  hour |-> (Head(table).created_at \div Hours(1)) % 24]>>
          ELSE <<>>) \o RecentEvents(Tail(table), cutoff)

\* the dashboard forgetting the alerts once it has shown them
get_security_dashboard_data_drains(table, blocked, susp, alts, strm, stream_ok, query_ok, psutil_ok, sample, t) ==
    LET last_24h == t - Hours(24)
        recent_events == RecentEvents(table, last_24h)
        severity_counts == CountBy(recent_events, "severity")
        system_metrics == get_system_metrics(strm, stream_ok, psutil_ok, sample)
    IN  [value |->
             IF query_ok
             THEN [total_events_24h |-> Len(recent_events),
                   critical_events_24h |-> DefaultGet(severity_counts, "CRITICAL", 0),
                   high_events_24h |-> DefaultGet(severity_counts, "HIGH", 0),
                   blocked_ips |-> Cardinality(blocked),
                   suspicious_ips |-> Cardinality(susp),
                   event_counts |-> CountBy(recent_events, "event_type"),
                   severity_counts |-> severity_counts,
                   hourly_distribution |-> CountBy(recent_events, "hour"),
                   system_metrics |-> system_metrics.value,
                   performance_alerts |-> LastN(alts, dashboard_alerts)]
             ELSE EmptyDict,
         stream |-> IF query_ok THEN system_metrics.stream
                    ELSE logger_write(strm, stream_ok, "security", "ERROR",
                                      "Error generating dashboard data",
                                      "SQLAlchemyError"),
         alerts |-> <<>>,
         security_logs |-> table,
         blocked_ips |-> blocked,
         suspicious_ips |-> susp]

\* get_security_dashboard_data(db) run at time t: the aggregate returned and
\* the state it leaves; query_ok tells whether the query of the table works
get_security_dashboard_data(table, blocked, susp, alts, strm, stream_ok, query_ok, psutil_ok, sample, t) ==
    LET last_24h == t - Hours(24)
        recent_events == RecentEvents(table, last_24h)
        severity_counts == CountBy(recent_events, "severity")
        system_metrics == get_system_metrics(strm, stream_ok, psutil_ok, sample)
    IN  [value |->
             IF query_ok
             THEN [total_events_24h |-> Len(recent_events),
                   critical_events_24h |-> DefaultGet(severity_counts, "CRITICAL", 0),
                   high_events_24h |-> DefaultGet(severity_counts, "HIGH", 0),
                   blocked_ips |-> Cardinality(blocked),
                   suspicious_ips |-> Cardinality(susp),
                   event_counts |-> CountBy(recent_events, "event_type"),
                   severity_counts |-> severity_counts,
                   hourly_distribution |-> CountBy(recent_events, "hour"),
                   system_metrics |-> system_metrics.value,
                   performance_alerts |-> LastN(alts, dashboard_alerts)]
             ELSE EmptyDict,
         stream |-> IF query_ok THEN system_metrics.stream
                    ELSE logger_write(strm, stream_ok, "security", "ERROR",
                                      "Error generating dashboard data",
                                      "SQLAlchemyError"),
         alerts |-> alts,
         security_logs |-> table,
         blocked_ips |-> blocked,
         suspicious_ips |-> susp]

----------------------------------------------------------------------------
(* monitoring.py: SecurityMonitoringMiddleware.__call__ for an http scope  *)

\* "for event in security_events": each event logged with a session of its
\* own that is closed, never committed, afterwards.  Gives the outcome, the
\* stream and the number of staged rows the closed sessions dropped.
RECURSIVE LogEvents(_, _, _, _)
LogEvents(strm, events, stream_ok, fault) ==
    IF events = <<>>
    THEN [outcome |-> Return(None), stream |-> strm, dropped |-> 0]
    ELSE LET r == SecurityLogger_log_security_event(strm, Head(events), SessionLocal,
                                                    stream_ok, fault)
             rest == LogEvents(r.stream, Tail(events), stream_ok, fault)
         IN  IF r.outcome.kind = "raise"
             THEN [outcome |-> r.outcome, stream |-> r.stream, dropped |-> Len(r.db[1])]
             ELSE [outcome |-> rest.outcome, stream |-> rest.stream,
                   dropped |-> Len(r.db[1]) + rest.dropped]

\* the responses of the application behind the middleware
Responses == {[status_code |-> 200, response_time |-> 1],
              [status_code |-> 401, response_time |-> 3]}

\* __call__(scope, receive, send) run at time t: the request is analysed,
\* its events are logged, the application is called and, when the body of
\* its response is sent, the performance metric is logged
SecurityMonitoringMiddleware(rp, susp, blocked, mts, stats, alts, strm, request, response, stream_ok, fault, psutil_ok, sample, t) ==
    LET a == analyze_request(rp, susp, blocked, request, None, t)
        l == LogEvents(strm, a.events, stream_ok, fault)
        system_metrics == get_system_metrics(l.stream, stream_ok, psutil_ok, sample)
        metric == PerformanceMetric(request.path, request.method, response.response_time,
                                    response.status_code, None,
                                    system_metrics.value.memory_percent,
                                    system_metrics.value.cpu_percent,
                                    t)
        p == log_performance_metric(mts, stats, alts, system_metrics.stream, metric,
                                    stream_ok)
        stopped == l.outcome.kind = "raise"
    IN  [ip_address |-> a.ip_address,
         events |-> a.events,
         request_patterns |-> a.request_patterns,
         suspicious_ips |-> a.suspicious_ips,
         dropped |-> l.dropped,
         app_called |-> ~stopped,
         outcome |-> IF stopped THEN l.outcome ELSE Return(response.status_code),
         stream |-> IF stopped THEN l.stream ELSE p.stream,
         metrics |-> IF stopped THEN mts ELSE p.metrics,
         endpoint_stats |-> IF stopped THEN stats ELSE p.endpoint_stats,
         alerts |-> IF stopped THEN alts ELSE p.alerts]

----------------------------------------------------------------------------
(* main.py: the handlers of concurrent login requests.  login is a         *)
(* coroutine (async def) whose body, authenticate_user included, has no    *)
(* await: the event loop runs the body of one handler to its end before it *)
(* starts the body of another.  The tracker itself takes no lock.          *)

At(at, read) == [at |-> at, read |-> read]

\* handlers run on the threads of a pool: one starts whatever the others do
thread_pool_free(p) == TRUE

\* the event loop is free to start the body of a handler when no body is
\* running
event_loop_free(p) == \A g \in DOMAIN p : p[g].at # "running"

\* a login request arrives; its form and its session are awaited
HandlerArrive(h) ==
    /\ pc[h].at = "idle"
    /\ pc' = [pc EXCEPT ![h] = At("waiting", EmptyDict)]
    /\ UNCHANGED <<now, log, ret, pre, trackerVars, dbVars, tokenVars, threatVars,
                   monitorVars>>

\* the body of the handler starts: record_failed_attempt reads the map
HandlerBegin(h) ==
    /\ pc[h].at = "waiting"
    /\ event_loop_free(pc)
    /\ pc' = [pc EXCEPT ![h] = At("running", attempts)]
    /\ UNCHANGED <<now, log, ret, pre, trackerVars, dbVars, tokenVars, threatVars,
                   monitorVars>>

\* record_failed_attempt writes the count it has read, raised by one, and
\* the lockout that count asks for; the handler ends
HandlerEnd(h, identifier) ==
    \E r \in {record_failed_attempt(pc[h].read, lockouts, identifier, None, None, now)} :
        /\ pc[h].at = "running"
        /\ attempts' = r.attempts
        /\ lockouts' = r.lockouts
        /\ log' = r.events
        /\ pre' = Snapshot
        /\ ret' = [op |-> "login", identifier |-> identifier, value |-> r.value,
                   waiting |-> Cardinality({g \in Handlers : pc[g].at = "waiting"}),
                   at |-> now]
        /\ streak' = NextStreak(r.attempts, r.lockouts, {identifier})
        /\ pc' = [pc EXCEPT ![h] = At("done", EmptyDict)]
        /\ UNCHANGED <<now, dbVars, tokenVars, threatVars, monitorVars>>

----------------------------------------------------------------------------
(* The monitoring operations, one call per step                            *)

\* the rows of the security_logs table when the process starts: no code
\* path commits a row
StoredEvents == <<>>

\* one http request through the middleware, for an IP that has had fewer
\* than MaxRequests requests
Middleware(request, response, stream_ok, fault, psutil_ok, sample) ==
    \E r \in {SecurityMonitoringMiddleware(request_patterns, suspicious_ips, blocked_ips,
                  metrics, endpoint_stats, alerts, <<>>, request, response,
                  stream_ok, fault, psutil_ok, sample, now)} :
        /\ Len(DefaultGet(request_patterns, r.ip_address, <<>>)) < MaxRequests
        /\ request_patterns' = r.request_patterns
        /\ suspicious_ips' = r.suspicious_ips
        /\ seen' = Seen("requests", r.ip_address, now)
        /\ stream' = r.stream
        /\ metrics' = r.metrics
        /\ endpoint_stats' = r.endpoint_stats
        /\ alerts' = r.alerts
        /\ log' = <<>>
        /\ pre' = MonitorSnapshot
        /\ ret' = [op |-> "middleware", request |-> request, response |-> response,
                   stream_ok |-> stream_ok, fault |-> fault,
                   ip_address |-> r.ip_address, events |-> r.events,
                   dropped |-> r.dropped, app_called |-> r.app_called,
                   outcome |-> r.outcome, at |-> now]
        /\ UNCHANGED <<now, failed_attempts, blocked_ips, security_logs, trackerVars,
                       dbVars, tokenVars, handlerVars>>

\* one call of SecurityLogger.log_security_event outside the middleware,
\* with or without a session
LogSecurityEvent(event, db, stream_ok, fault) ==
    /\ stream' = SecurityLogger_log_security_event(<<>>, event, db, stream_ok, fault).stream
    /\ log' = <<>>
    /\ pre' = MonitorSnapshot
    /\ ret' = [op |-> "log_security_event", event |-> event, db |-> db,
               stream_ok |-> stream_ok, fault |-> fault,
               staged |-> SecurityLogger_log_security_event(<<>>, event, db, stream_ok, fault).db,
               outcome |-> SecurityLogger_log_security_event(<<>>, event, db, stream_ok, fault).outcome,
               at |-> now]
    /\ UNCHANGED <<now, metrics, alerts, endpoint_stats, security_logs, trackerVars,
                   dbVars, tokenVars, threatVars, handlerVars>>

\* one call of SecurityLogger.get_security_dashboard_data
Dashboard(stream_ok, query_ok, psutil_ok, sample) ==
    \E r \in {get_security_dashboard_data(security_logs, blocked_ips, suspicious_ips,
                  alerts, <<>>, stream_ok, query_ok, psutil_ok, sample, now)} :
        /\ stream' = r.stream
        /\ alerts' = r.alerts
        /\ security_logs' = r.security_logs
        /\ blocked_ips' = r.blocked_ips
        /\ suspicious_ips' = r.suspicious_ips
        /\ log' = <<>>
        /\ pre' = MonitorSnapshot
        /\ ret' = [op |-> "get_security_dashboard_data", query_ok |-> query_ok,
                   stream_ok |-> stream_ok, value |-> r.value, at |-> now]
        /\ UNCHANGED <<now, metrics, endpoint_stats, failed_attempts, request_patterns,
                       seen, trackerVars, dbVars, tokenVars, handlerVars>>

----------------------------------------------------------------------------

\* login_tracker = LoginAttemptTracker(): both maps empty
Init ==
    /\ now = 0
    /\ attempts = EmptyDict
    /\ lockouts = EmptyDict
    /\ log = <<>>
    /\ ret = Returned("init", None, None)
    /\ pre = [attempts |-> EmptyDict, lockouts |-> EmptyDict, users |-> UserTable,
              tokens |-> {}, spent |-> {}]
    /\ streak = [i \in Identifiers |-> 0]
    /\ users = UserTable
    /\ spent = {}
    /\ tokens = {}
    /\ failed_attempts = EmptyDict
    /\ request_patterns = EmptyDict
    /\ suspicious_ips = {}
    /\ blocked_ips = {}
    /\ seen = [requests |-> EmptyDict, failures |-> EmptyDict]
    /\ stream = <<>>
    /\ metrics = <<>>
    /\ alerts = <<>>
    /\ endpoint_stats = EmptyDict
    /\ security_logs = StoredEvents
    /\ pc = [h \in Handlers |-> At("idle", EmptyDict)]

TrackerNext ==
    \/ Tick
    \/ \E identifier \in Identifiers : IsLockedOut(identifier)
    \/ \E identifier \in Identifiers : RecordFailedAttempt(identifier)
    \/ \E identifier \in Identifiers : RecordSuccessfulAttempt(identifier)

\* the LoginAttemptTracker under sequential calls
SpecTracker == Init /\ [][TrackerNext]_vars

AuthNext ==
    \/ TickAuth
    \/ \E email \in Emails, password \in Passwords, request \in Requests :
          Authenticate(email, password, request)

\* login attempts through authenticate_user, one at a time
SpecAuth == Init /\ [][AuthNext]_vars

TokenNext ==
    \/ TickToken
    \/ \E commit_ok \in BOOLEAN :
          Login("u1@x.com", "P@ssw0rd1", CHOOSE q \in Requests : q.x_real_ip # <<>>,
                commit_ok)
    \/ \E token \in tokens \cup ForeignTokens : Refresh(token)
    \/ \E token \in tokens \cup ForeignTokens \cup StrayTokens : GetCurrentUser(token)

\* the token service: logins of u1 with the right password, refreshes, and
\* requests that carry a bearer token
SpecToken == Init /\ [][TokenNext]_vars

LoginNext ==
    \/ TickAuth
    \/ \E username \in Emails, password \in Passwords, commit_ok \in BOOLEAN :
          \E request \in {q \in Requests : q.x_real_ip = <<>> /\ q.x_forwarded_for = <<>>} :
              Login(username, password, request, commit_ok)

\* POST /auth/login with every email and password from one client address,
\* the commit succeeding or not
SpecLogin == Init /\ [][LoginNext]_vars

ThreatNext ==
    \/ TickThreat
    \/ \E request \in ThreatRequests : AnalyzeRequest(request)
    \/ \E ip_address \in FailedLoginIPs : RecordFailedLogin(ip_address)

\* the ThreatDetector under sequential calls
SpecThreat == Init /\ [][ThreatNext]_vars

BurstNext ==
    \/ TickBurst
    \/ \E request \in {q \in ThreatRequests : q.client.host = "1.2.3.4" /\ Len(q.path) = 5} :
          AnalyzeBurst(request)

FailuresNext ==
    \/ Tick
    \/ \E ip_address \in FailedLoginIPs : RecordFailedLogin(ip_address)

\* record_failed_login for one IP over an hour
SpecFailures == Init /\ [][FailuresNext]_vars

MonitorNext ==
    \/ \E request \in MonitorRequests, response \in Responses, stream_ok \in BOOLEAN,
          fault \in {None} \cup StagingFaults, psutil_ok \in BOOLEAN, sample \in Samples :
          Middleware(request, response, stream_ok, fault, psutil_ok, sample)
    \/ \E event \in MonitorEvents, db \in {<<>>, SessionLocal}, stream_ok \in BOOLEAN,
          fault \in {None} \cup StagingFaults :
          LogSecurityEvent(event, db, stream_ok, fault)

\* the middleware and the logger under sequential calls, with every failure
\* of the stream, of the staging and of psutil
SpecMonitor == Init /\ [][MonitorNext]_vars

GateNext ==
    \/ \E ip_address \in FailedLoginIPs : RecordFailedLogin(ip_address)
    \/ \E request \in MonitorRequests : AnalyzeRequest(request)
    \/ \E password \in Passwords :
          \E request \in {q \in Requests : q.x_real_ip = <<>> /\ q.x_forwarded_for = <<>>} :
              Authenticate("u1@x.com", password, request)

\* login attempts of u1 from 1.2.3.4 through authenticate_user, next to the
\* detector being told of failed logins of that IP and analysing requests
\* from it, all within one second
SpecGate == Init /\ [][GateNext]_vars

HandlersNext ==
    \/ \E h \in Handlers : HandlerArrive(h)
    \/ \E h \in Handlers : HandlerBegin(h)
    \/ \E h \in Handlers : HandlerEnd(h, "user:u1")

\* up to MaxHandlers login requests with a wrong password for u1 in flight
\* at once
SpecHandlers == Init /\ [][HandlersNext]_vars

RoundTripNext ==
    \/ TickToken
    \/ \E subject \in Subjects, ttl \in Ttls : Issue("access", subject, ttl)
    \/ \E subject \in Subjects : Issue("refresh", subject, 0)
    \/ \E token \in tokens : Refresh(token)
    \/ \E token \in tokens : GetCurrentUser(token)

\* the token service called directly for every kind, subject and
\* expires_delta, and its tokens verified on the access path and on the
\* refresh path as the clock runs
SpecRoundTrip == Init /\ [][RoundTripNext]_vars

\* the failure window of the detector passes
TickWindow ==
    /\ now + Minutes(failed_attempts_window) <= MaxAuthTime
    /\ now' = now + Minutes(failed_attempts_window)
    /\ UNCHANGED <<log, ret, pre, trackerVars, dbVars, tokenVars, threatVars,
                   monitorVars, handlerVars>>

BlocklistNext ==
    \/ TickWindow
    \/ \E ip_address \in FailedLoginIPs : RecordFailedLogin(ip_address)
    \/ \E request \in {q \in MonitorRequests : Len(q.path) > 5},
          response \in {p \in Responses : p.response_time > slow_response_threshold},
          sample \in Samples :
          Middleware(request, response, TRUE, None, TRUE, sample)
    \/ \E event \in MonitorEvents : LogSecurityEvent(event, SessionLocal, TRUE, None)
    \/ \E stream_ok \in BOOLEAN, query_ok \in BOOLEAN, psutil_ok \in BOOLEAN,
          sample \in Samples :
          Dashboard(stream_ok, query_ok, psutil_ok, sample)
    \/ \E identifier \in FailedLoginIPs : IsLockedOut(identifier)
    \/ \E identifier \in FailedLoginIPs :
          Count(attempts, identifier) < MaxRequests /\ RecordFailedAttempt(identifier)
    \/ \E identifier \in FailedLoginIPs : RecordSuccessfulAttempt(identifier)

\* every operation that runs next to the blocked set: the detector, the
\* middleware with a slow answer to a path traversal, the logger, the
\* dashboard with its failures, the tracker, and the clock
SpecBlocklist == Init /\ [][BlocklistNext]_vars

\* analyze_request for a burst of plain requests from one IP
SpecBurst == Init /\ [][BurstNext]_vars

----------------------------------------------------------------------------
(* auth.py: class PasswordValidator and get_password_hash; main.py:        *)
(* register.  A password is a sequence of characters.                      *)

Digits == {"0", "1", "2", "3", "4", "5", "6", "7", "8", "9"}

\* the class [!@#$%^&*(),.?":{}|<>]
SpecialChars ==
    {"!", "@", "#", "$", "%", "^", "&", "*", "(", ")", ",", ".", "?", "\"",
     ":", "{", "}", "|", "<", ">"}

\* re.search(r'[...]', password) for a class of characters
re_search_class(class, password) ==
    \E n \in 1..Len(password) : password[n] \in class

\* re.search(r'(.)\1{2,}', password)
re_search_repeat(password) ==
    \E n \in 1..(Len(password) - 2) :
        /\ AnyChar(password[n])
        /\ password[n + 1] = password[n]
        /\ password[n + 2] = password[n]

\* the alternatives of (012|123|...|def)
sequential_patterns ==
    {<<"0", "1", "2">>, <<"1", "2", "3">>, <<"2", "3", "4">>, <<"3", "4", "5">>,
     <<"4", "5", "6">>, <<"5", "6", "7">>, <<"6", "7", "8">>, <<"7", "8", "9">>,
     <<"8", "9", "0">>, <<"a", "b", "c">>, <<"b", "c", "d">>, <<"c", "d", "e">>,
     <<"d", "e", "f">>}

\* re.search(r'(012|123|...|def)', text)
re_search_runs(text) ==
    \E lit \in sequential_patterns : \E n \in 1..Len(text) : Occurs(text, lit, n)

common_passwords ==
    {"password", "123456", "password123", "admin", "qwerty", "letmein",
     "welcome", "monkey", "1234567890"}

\* if condition: errors.append(message)
append_if(errors, condition, message) ==
    IF condition THEN Append(errors, message) ELSE errors

\* separator.join(items)
RECURSIVE JoinWith(_, _)
JoinWith(separator, items) ==
    IF items = <<>> THEN ""
    ELSE IF Len(items) = 1 THEN Head(items)
    ELSE Head(items) \o separator \o JoinWith(separator, Tail(items))

\* PasswordValidator.validate_password_strength(password): (ok, errors)
validate_password_strength(password) ==
    LET e1 == append_if(<<>>, Len(password) < PASSWORD_MIN_LENGTH,
                  "Password must be at least " \o ToString(PASSWORD_MIN_LENGTH)
                      \o " characters long")
        e2 == append_if(e1,
                  PASSWORD_REQUIRE_UPPERCASE
                      /\ ~re_search_class({UpperCase[k] : k \in 1..Len(UpperCase)}, password),
                  "Password must contain at least one uppercase letter")
        e3 == append_if(e2,
                  PASSWORD_REQUIRE_LOWERCASE
                      /\ ~re_search_class({LowerCase[k] : k \in 1..Len(LowerCase)}, password),
                  "Password must contain at least one lowercase letter")
        e4 == append_if(e3,
                  PASSWORD_REQUIRE_NUMBERS /\ ~re_search_class(Digits, password),
                  "Password must contain at least one number")
        e5 == append_if(e4,
                  PASSWORD_REQUIRE_SPECIAL /\ ~re_search_class(SpecialChars, password),
                  "Password must contain at least one special character")
        e6 == append_if(e5, re_search_repeat(password),
                  "Password cannot contain three consecutive identical characters")
        e7 == append_if(e6, re_search_runs(Lower(password)),
                  "Password cannot contain common sequential patterns")
        e8 == append_if(e7, Join(Lower(password)) \in common_passwords,
                  "Password is too common and not allowed")
    IN  [ok |-> Len(e8) = 0, errors |-> e8]

\* get_password_hash(password): the hash, or the ValueError raised
get_password_hash(password) ==
    LET v == validate_password_strength(password)
    IN  IF ~v.ok
        THEN [kind |-> "raise", exc |-> "ValueError",
              message |-> "Password validation failed: " \o JoinWith("; ", v.errors)]
        ELSE Return(pwd_hash(Join(password)))

HTTP_400_BAD_REQUEST == 400

\* str(uuid.uuid4()): an id no row has
uuid4(usrs) == "u" \o ToString(Cardinality(DOMAIN usrs) + 1)

\* create_verification_token(): secrets.token_urlsafe(32), a token no row has
create_verification_token(usrs) == "token-" \o ToString(Cardinality(DOMAIN usrs) + 1)

\* email_service.send_verification_email: True without SMTP credentials,
\* and with them whether the server took the message
send_verification_email(smtp_configured, delivered) ==
    IF ~smtp_configured THEN TRUE ELSE delivered

\* POST /auth/register for a request the limiter lets through: the response
\* and the users table.  A ValueError of get_password_hash leaves the handler.
register(usrs, user_data, smtp_configured, delivered) ==
    IF \E u \in DOMAIN usrs : usrs[u].email = user_data.email
    THEN [response |-> HTTPException(HTTP_400_BAD_REQUEST, "Email already registered"),
          users |-> usrs]
    ELSE IF \E u \in DOMAIN usrs : usrs[u].username = user_data.username
    THEN [response |-> HTTPException(HTTP_400_BAD_REQUEST, "Username already taken"),
          users |-> usrs]
    ELSE
        LET hashed == get_password_hash(user_data.password)
            id == uuid4(usrs)
            email_sent == send_verification_email(smtp_configured, delivered)
        IN  IF hashed.kind = "raise"
            THEN [response |-> hashed, users |-> usrs]
            ELSE
                LET user == [id |-> id,
                             email |-> user_data.email,
                             username |-> user_data.username,
                             hashed_password |-> hashed.value,
                             verification_token |-> create_verification_token(usrs),
                             is_verified |-> ~smtp_configured,
                             is_active |-> TRUE,
                             last_login |-> None,
                             last_login_ip |-> None]
                    final == IF ~email_sent /\ ~smtp_configured
                             THEN [user EXCEPT !.is_verified = TRUE,
                                               !.verification_token = None]
                             ELSE user
                IN  [response |-> Return(id),
                     users |-> [u \in DOMAIN usrs \cup {id} |->
                                   IF u = id THEN final ELSE usrs[u]]]

\* the characters of a password that decide the four character classes
ClassPart(S) ==
    (IF 1 \in S THEN <<"Q">> ELSE <<>>) \o (IF 2 \in S THEN <<"w">> ELSE <<>>)
        \o (IF 3 \in S THEN <<"7">> ELSE <<>>) \o (IF 4 \in S THEN <<"!">> ELSE <<>>)

\* what follows them: nothing, a filler, a repetition, a repetition of
\* line breaks, sequential runs in either case, other symbols
TailParts ==
    {<<>>,
     <<"x", "k", "x", "k">>,
     <<"x", "k", "x", "k", "x", "k", "x">>,
     <<"z", "z", "z", "x", "k">>,
     <<"\n", "\n", "\n", "x", "k">>,
     <<"4", "5", "6", "x", "k">>,
     <<"C", "d", "E", "x", "k">>,
     <<"9", "Z", "k", "?", "<">>}

\* the passwords the validator is given: every tail after all four classes,
\* after all but one and after none, and deny-listed words
PolicyPasswords ==
    {ClassPart(S) \o tail : S \in {T \in SUBSET (1..4) : Cardinality(T) # 1 /\ Cardinality(T) # 2},
                            tail \in TailParts}
        \cup {<<"p", "a", "s", "s", "w", "o", "r", "d">>,
              <<"A", "d", "m", "i", "n">>,
              <<"L", "e", "t", "m", "e", "i", "n">>,
              <<"P", "a", "s", "s", "w", "o", "r", "d", "1", "2", "3">>}

\* the bodies of registration requests: a taken or a new email and username,
\* and the passwords with all four character classes or on the deny-list
Registrations ==
    [email : {"u1@x.com", "new@x.com"}, username : {"u1", "new"},
     password : {p \in PolicyPasswords :
                    \/ \E tail \in TailParts : p = ClassPart(1..4) \o tail
                    \/ Join(Lower(p)) \in common_passwords}]

ValidatePassword(password) ==
    /\ ret' = [op |-> "validate_password_strength", password |-> password,
               ok |-> validate_password_strength(password).ok,
               errors |-> validate_password_strength(password).errors, at |-> now]
    /\ UNCHANGED <<now, log, pre, trackerVars, dbVars, tokenVars, threatVars,
                   monitorVars, handlerVars>>

GetPasswordHash(password) ==
    /\ ret' = [op |-> "get_password_hash", password |-> password,
               outcome |-> get_password_hash(password), at |-> now]
    /\ UNCHANGED <<now, log, pre, trackerVars, dbVars, tokenVars, threatVars,
                   monitorVars, handlerVars>>

\* one registration while fewer than MaxRegistered users have registered
Register(user_data, smtp_configured, delivered) ==
    /\ Cardinality(DOMAIN users) < Cardinality(DOMAIN UserTable) + MaxRegistered
    /\ \E r \in {register(users, user_data, smtp_configured, delivered)} :
        /\ users' = r.users
        /\ spent' = spent
        /\ ret' = [op |-> "register", password |-> user_data.password,
                   outcome |-> r.response, at |-> now]
        /\ UNCHANGED <<now, log, pre, trackerVars, tokenVars, threatVars,
                       monitorVars, handlerVars>>

PolicyNext ==
    \/ \E password \in PolicyPasswords : ValidatePassword(password)
    \/ \E password \in PolicyPasswords : GetPasswordHash(password)
    \/ \E user_data \in Registrations, smtp_configured \in BOOLEAN, delivered \in BOOLEAN :
          Register(user_data, smtp_configured, delivered)

\* the validator and the hash operation called directly, and registrations
SpecPolicy == Init /\ [][PolicyNext]_vars

\* db.query(User).filter(User.verification_token == token).first()
find_user_by_verification_token(usrs, token) ==
    IF \E u \in DOMAIN usrs : usrs[u].verification_token = token
    THEN (CHOOSE u \in DOMAIN usrs : usrs[u].verification_token = token)
    ELSE None

\* a verification that leaves the token on the user record
verify_email_keeps_token(usrs, token) ==
    LET user == find_user_by_verification_token(usrs, token)
    IN  IF user = None
        THEN [response |-> HTTPException(HTTP_400_BAD_REQUEST, "Invalid verification token"),
              users |-> usrs]
        ELSE [response |-> Return([message |-> "Email verified successfully"]),
              users |-> [usrs EXCEPT ![user].is_verified = TRUE]]

\* POST /auth/verify-email for a request the limiter lets through: the
\* response and the users table
verify_email(usrs, token) ==
    LET user == find_user_by_verification_token(usrs, token)
    IN  IF user = None
        THEN [response |-> HTTPException(HTTP_400_BAD_REQUEST, "Invalid verification token"),
              users |-> usrs]
        ELSE [response |-> Return([message |-> "Email verified successfully"]),
              users |-> [usrs EXCEPT ![user].is_verified = TRUE,
                                     ![user].verification_token = None]]

\* the tokens of verification requests: the one the first registration is
\* given, the one a second would be given, and one never issued
VerificationTokens == {"token-3", "token-4", "token-0"}

VerifyEmail(token) ==
    \E r \in {verify_email(users, token)} :
        /\ users' = r.users
        /\ spent' = IF r.response.kind = "return" THEN spent \cup {token} ELSE spent
        /\ pre' = Snapshot
        /\ ret' = [op |-> "verify_email", token |-> token, outcome |-> r.response,
                   at |-> now]
        /\ UNCHANGED <<now, log, trackerVars, tokenVars, threatVars, monitorVars,
                       handlerVars>>

VerifyNext ==
    \/ TickAuth
    \/ \E user_data \in Registrations, smtp_configured \in BOOLEAN, delivered \in BOOLEAN :
          Register(user_data, smtp_configured, delivered)
    \/ \E token \in VerificationTokens : VerifyEmail(token)

\* registrations with and without SMTP, and verification requests, as the
\* clock runs
SpecVerify == Init /\ [][VerifyNext]_vars

----------------------------------------------------------------------------
(* The composed system: a login request passes the monitoring middleware,  *)
(* which analyses it, calls the login endpoint and records the metric of   *)
(* the response.                                                           *)

\* a detector that is told of every login answered with 401 or 423
detector_calls_on_failure(fa, blocked, outcome, ip_address, t) ==
    IF outcome.kind = "raise" /\ outcome.status_code \in {HTTP_401_UNAUTHORIZED, HTTP_423_LOCKED}
    THEN record_failed_login(fa, blocked, ip_address, t)
    ELSE [failed_attempts |-> fa, blocked_ips |-> blocked]

\* the calls of ThreatDetector.record_failed_login that login and
\* authenticate_user make for an outcome: none, whatever the outcome
detector_calls(fa, blocked, outcome, ip_address, t) ==
    [failed_attempts |-> fa, blocked_ips |-> blocked]

\* the status of the response of a handler
status_code(outcome) == IF outcome.kind = "raise" THEN outcome.status_code ELSE 200

\* POST /auth/login from 1.2.3.4
LoginRequests ==
    { [x_forwarded_for |-> <<>>, x_real_ip |-> <<>>, client |-> [host |-> "1.2.3.4"],
       method |-> "POST",
       path |-> <<"/", "a", "u", "t", "h", "/", "l", "o", "g", "i", "n">>,
       query |-> <<>>] }

\* one login request through the middleware, while the IP has had no more
\* than MaxCount requests
MonitoredLogin(username, password, request, sample) ==
    \E l \in {login(attempts, lockouts, users, username, password, request, TRUE, now)} :
    \E d \in {detector_calls(failed_attempts, blocked_ips, l.outcome, l.client_ip, now)} :
    \E r \in {SecurityMonitoringMiddleware(request_patterns, suspicious_ips, blocked_ips,
                  metrics, endpoint_stats, alerts, <<>>, request,
                  [status_code |-> status_code(l.outcome), response_time |-> 1],
                  TRUE, None, TRUE, sample, now)} :
        /\ Len(DefaultGet(request_patterns, r.ip_address, <<>>)) <= MaxCount
        /\ \A i \in Identifiers :
              Count(l.attempts, i) > Count(attempts, i) => Count(attempts, i) < MaxCount
        /\ Cardinality(tokens \cup l.issued) <= MaxTokens
        /\ attempts' = l.attempts
        /\ lockouts' = l.lockouts
        /\ users' = l.users
        /\ spent' = spent
        /\ tokens' = tokens \cup l.issued
        /\ streak' = StreakAfter(streak, l.calls)
        /\ failed_attempts' = d.failed_attempts
        /\ blocked_ips' = d.blocked_ips
        /\ request_patterns' = r.request_patterns
        /\ suspicious_ips' = r.suspicious_ips
        /\ seen' = Seen("requests", r.ip_address, now)
        /\ stream' = r.stream
        /\ metrics' = r.metrics
        /\ endpoint_stats' = r.endpoint_stats
        /\ alerts' = r.alerts
        /\ log' = l.events
        /\ pre' = MonitorSnapshot
        /\ ret' = [op |-> "monitored_login", email |-> username, password |-> password,
                   client_ip |-> l.client_ip, outcome |-> l.outcome,
                   events |-> r.events, at |-> now]
        /\ UNCHANGED <<now, security_logs, handlerVars>>

ComposedNext ==
    \/ \E username \in {"u1@x.com", "nobody@x.com"}, password \in Passwords,
          request \in LoginRequests, sample \in Samples :
          MonitoredLogin(username, password, request, sample)
    \/ \E request \in MonitorRequests, response \in Responses, sample \in Samples :
          Middleware(request, response, TRUE, None, TRUE, sample)

\* logins of u1 and of an unknown email from 1.2.3.4 through the middleware,
\* next to other requests from that IP
SpecComposed == Init /\ [][ComposedNext]_vars

----------------------------------------------------------------------------
(* Tokens refreshed after the account was locked or deactivated            *)

\* an administrator clears the is_active column of a user row (database.py);
\* no handler of the API writes the column
Deactivate(user) ==
    /\ users[user].is_active
    /\ users' = [users EXCEPT ![user].is_active = FALSE]
    /\ spent' = spent
    /\ log' = <<>>
    /\ pre' = Snapshot
    /\ ret' = [op |-> "deactivate", user |-> user, at |-> now]
    /\ UNCHANGED <<now, trackerVars, tokenVars, threatVars, monitorVars, handlerVars>>

RefreshNext ==
    \/ TickToken
    \/ \E password \in Passwords :
          Login("u1@x.com", password,
                CHOOSE q \in Requests : q.x_real_ip = <<>> /\ q.x_forwarded_for = <<>>,
                TRUE)
    \/ Deactivate("u1")
    \/ \E token \in tokens \cup ForeignTokens \cup StrayTokens : Refresh(token)

\* logins of u1, then refreshes after failures or a deactivation
SpecRefresh == Init /\ [][RefreshNext]_vars

----------------------------------------------------------------------------
(* The check-then-delete statements of is_locked_out and of                *)
(* record_successful_attempt, one statement per step, in the handlers of   *)
(* two requests that meet an expired lockout                               *)

\* the tracker operations that delete entries
CleanupOps == {"is_locked_out", "record_successful_attempt"}

\* the two request handlers
TwoHandlers == {h \in Handlers : h <= 2}

\* the frame of a tracker operation: the statement it is at, and the
\* exception that ended it
Frame(op, line, error) == [op |-> op, line |-> line, error |-> error]

\* the statement at frame.line of is_locked_out(identifier) or of
\* record_successful_attempt(identifier), run at time t on the maps att, lck:
\* the maps it leaves, the statement that follows and the exception raised.
\* self.lockouts[key] and del of a key that is not in the dict raise KeyError
tracker_statement(att, lck, frame, identifier, t) ==
    LET lockout_key == get_lockout_key(identifier)
        attempt_key == get_attempt_key(identifier)
        goto(line) == [attempts |-> att, lockouts |-> lck, line |-> line,
                       error |-> None]
        KeyError == [attempts |-> att, lockouts |-> lck, line |-> "return",
                     error |-> "KeyError"]
        del_lockout(line) ==
            IF lockout_key \notin DOMAIN lck THEN KeyError
            ELSE [attempts |-> att, lockouts |-> DictDel(lck, lockout_key),
                  line |-> line, error |-> None]
        del_attempt(line) ==
            IF attempt_key \notin DOMAIN att THEN KeyError
            ELSE [attempts |-> DictDel(att, attempt_key), lockouts |-> lck,
                  line |-> line, error |-> None]
    IN  IF frame.op = "is_locked_out"
        THEN CASE frame.line = "if_lockout" ->
                      IF lockout_key \in DOMAIN lck
                      THEN goto("read_lockout") ELSE goto("return")
               [] frame.line = "read_lockout" ->
                      IF lockout_key \notin DOMAIN lck THEN KeyError
                      ELSE IF t < lck[lockout_key]
                      THEN goto("return") ELSE goto("del_lockout")
               [] frame.line = "del_lockout" -> del_lockout("if_attempt")
               [] frame.line = "if_attempt" ->
                      IF attempt_key \in DOMAIN att
                      THEN goto("del_attempt") ELSE goto("return")
               [] frame.line = "del_attempt" -> del_attempt("return")
        ELSE CASE frame.line = "if_attempt" ->
                      IF attempt_key \in DOMAIN att
                      THEN goto("del_attempt") ELSE goto("if_lockout")
               [] frame.line = "del_attempt" -> del_attempt("if_lockout")
               [] frame.line = "if_lockout" ->
                      IF lockout_key \in DOMAIN lck
                      THEN goto("del_lockout") ELSE goto("log")
               [] frame.line = "del_lockout" -> del_lockout("log")
               [] frame.line = "log" -> goto("return")

\* the first statement of the operation
first_statement(op) == IF op = "is_locked_out" THEN "if_lockout" ELSE "if_attempt"

\* a request arrives whose handler will run op on identifier, while the
\* expired lockout of identifier is still in the map
CleanupArrive(h, op, identifier) ==
    /\ pc[h].at = "idle"
    /\ HasLockout(lockouts, identifier)
    /\ ~LockedAt(lockouts, identifier, now)
    /\ pc' = [pc EXCEPT ![h] = At("waiting", Frame(op, "arrived", None))]
    /\ UNCHANGED <<now, log, ret, pre, trackerVars, dbVars, tokenVars, threatVars,
                   monitorVars>>

\* the handler of the request is started
CleanupBegin(h) ==
    /\ pc[h].at = "waiting"
    /\ event_loop_free(pc)
    /\ pc' = [pc EXCEPT ![h] = At("running", Frame(pc[h].read.op,
                                                  first_statement(pc[h].read.op), None))]
    /\ UNCHANGED <<now, log, ret, pre, trackerVars, dbVars, tokenVars, threatVars,
                   monitorVars>>

\* the handler runs the statement it is at
CleanupStatement(h, identifier) ==
    /\ pc[h].at = "running"
    /\ \E r \in {tracker_statement(attempts, lockouts, pc[h].read, identifier, now)} :
          /\ attempts' = r.attempts
          /\ lockouts' = r.lockouts
          /\ streak' = NextStreak(r.attempts, r.lockouts, {})
          /\ log' = IF pc[h].read.line = "log"
                    THEN <<log_security_event("SUCCESSFUL_LOGIN", None, None,
                                              "Login successful")>>
                    ELSE log
          /\ pre' = Snapshot
          /\ ret' = [op |-> "statement", of |-> pc[h].read.op,
                     line |-> pc[h].read.line, identifier |-> identifier,
                     error |-> r.error,
                     others |-> {g \in Handlers : g # h /\ pc[g].at # "idle"},
                     at |-> now]
          /\ pc' = [pc EXCEPT ![h] =
                       At(IF r.line = "return" THEN "done" ELSE "running",
                          Frame(pc[h].read.op, r.line, r.error))]
    /\ UNCHANGED <<now, dbVars, tokenVars, threatVars, monitorVars>>

\* failures recorded, and time passing, before the two requests arrive
CleanupSetup ==
    /\ \A h \in Handlers : pc[h].at = "idle"
    /\ Tick \/ RecordFailedAttempt("user:u1")

CleanupNext ==
    \/ CleanupSetup
    \/ \E h \in TwoHandlers, op \in CleanupOps : CleanupArrive(h, op, "user:u1")
    \/ \E h \in TwoHandlers : CleanupBegin(h)
    \/ \E h \in TwoHandlers : CleanupStatement(h, "user:u1")

\* two handlers that meet the expired lockout of user:u1
SpecCleanup == Init /\ [][CleanupNext]_vars

----------------------------------------------------------------------------
(* Claims about the LoginAttemptTracker, checked under SpecTracker         *)

\* the last handler was op, called for identifier
Ran(op, identifier) == ret.op = op /\ ret.identifier = identifier

\* the value the k-th of k record_failed_attempt calls in a row returns,
\* starting from the maps att, lck
RECURSIVE NthFailure(_, _, _, _, _)
NthFailure(att, lck, identifier, k, t) ==
    LET r == record_failed_attempt(att, lck, identifier, None, None, t)
    IN  IF k = 1 THEN r.value
        ELSE NthFailure(r.attempts, r.lockouts, identifier, k - 1, t)

\* C3 (as claimed): a record_failed_attempt for an identifier whose lockout is
\* active returns True and leaves the lockout's expiry as it was.
C3_LockoutExpiryNotExtended ==
    \A i \in Identifiers :
        (Ran("record_failed_attempt", i) /\ LockedAt(pre.lockouts, i, ret.at))
            => /\ ret.value = TRUE
               /\ HasLockout(lockouts, i)
               /\ lockouts[get_lockout_key(i)] = pre.lockouts[get_lockout_key(i)]

\* C4: the k-th record_failed_attempt in a row for an identifier that started
\* Clean returns True exactly when k >= 5; a lockout entry exists exactly for
\* the identifiers whose attempt record has count >= 5; is_locked_out is True
\* right after the 5th failure.
C4_LockoutExactlyAtFive ==
    /\ \A i \in Identifiers :
          HasLockout(lockouts, i) <=> Count(attempts, i) >= MAX_LOGIN_ATTEMPTS
    /\ \A i \in Identifiers :
          Ran("record_failed_attempt", i)
              => /\ ret.value = (streak[i] >= MAX_LOGIN_ATTEMPTS)
                 /\ (streak[i] = MAX_LOGIN_ATTEMPTS /\ now = ret.at)
                       => is_locked_out(attempts, lockouts, i, now).value

\* C4 witness: the 5th failure in a row has just returned True.
C4_Witness ==
    /\ Ran("record_failed_attempt", "user:u1")
    /\ streak["user:u1"] = MAX_LOGIN_ATTEMPTS
    /\ ret.value = TRUE
    /\ now = ret.at
    /\ Clean(attempts, lockouts, "1.2.3.4")

\* C5 (as claimed): a record_failed_attempt that finds an expired lockout
\* first returns the identifier to Clean: it counts as failure number 1,
\* returns False and leaves no lockout.
C5_FailureAfterExpiryStartsOver ==
    \A i \in Identifiers :
        (/\ Ran("record_failed_attempt", i)
         /\ HasLockout(pre.lockouts, i)
         /\ ~LockedAt(pre.lockouts, i, ret.at))
            => /\ ret.value = FALSE
               /\ Count(attempts, i) = 1
               /\ ~HasLockout(lockouts, i)

\* C6: is_locked_out called once the lockout's expiry has passed returns
\* False and removes the lockout and the attempt record in that call, so
\* that of the next record_failed_attempt calls only the 5th returns True.
C6_ExpiredLockoutPurged ==
    \A i \in Identifiers :
        (/\ Ran("is_locked_out", i)
         /\ HasLockout(pre.lockouts, i)
         /\ ret.at >= pre.lockouts[get_lockout_key(i)])
            => /\ ret.value = FALSE
               /\ Clean(attempts, lockouts, i)
               /\ \A k \in 1..MAX_LOGIN_ATTEMPTS :
                     NthFailure(attempts, lockouts, i, k, now)
                         = (k = MAX_LOGIN_ATTEMPTS)

\* C6 witness: is_locked_out has just run exactly at the expiry of a lockout.
C6_Witness ==
    /\ Ran("is_locked_out", "1.2.3.4")
    /\ HasLockout(pre.lockouts, "1.2.3.4")
    /\ ret.at = pre.lockouts[get_lockout_key("1.2.3.4")]
    /\ Count(pre.attempts, "1.2.3.4") >= MAX_LOGIN_ATTEMPTS

\* C7: record_successful_attempt from any state leaves the identifier with
\* no attempt record and no lockout: is_locked_out is False right after and
\* the next failure is number 1.
C7_SuccessClears ==
    \A i \in Identifiers :
        Ran("record_successful_attempt", i)
            => /\ Clean(attempts, lockouts, i)
               /\ ~is_locked_out(attempts, lockouts, i, now).value
               /\ LET r == record_failed_attempt(attempts, lockouts, i, None, None, now)
                  IN  /\ r.attempts[get_attempt_key(i)].count = 1
                      /\ r.value = FALSE

\* C7 witness: record_successful_attempt has just run for an identifier whose
\* lockout was active.
C7_Witness ==
    /\ Ran("record_successful_attempt", "user:u1")
    /\ LockedAt(pre.lockouts, "user:u1", ret.at)
    /\ Count(pre.attempts, "user:u1") >= MAX_LOGIN_ATTEMPTS

----------------------------------------------------------------------------
(* Claims about authenticate_user, checked under SpecAuth                  *)

\* the last handler was authenticate_user, called with this email
Authenticated(email) == ret.op = "authenticate_user" /\ ret.email = email

\* authenticate_user raised 423 Locked because of failed attempts
RejectedLocked ==
    /\ ret.outcome.kind = "raise"
    /\ ret.outcome.status_code = HTTP_423_LOCKED
    /\ ret.outcome.detail # "Account is deactivated"

\* authenticate_user returned False, which login reports as 401
\* "Incorrect email or password"
RejectedInvalidCredentials ==
    ret.outcome.kind = "return" /\ ret.outcome.value = False

\* the last handler logged an event of this type for this user and IP
Logged(event_type, user_id, ip_address) ==
    \E n \in 1..Len(log) :
        /\ log[n].event_type = event_type
        /\ log[n].user_id = user_id
        /\ log[n].ip_address = ip_address

\* the tracker entries of identifier are the ones the handler found
Untouched(identifier) ==
    /\ HasRecord(attempts, identifier) = HasRecord(pre.attempts, identifier)
    /\ HasLockout(lockouts, identifier) = HasLockout(pre.lockouts, identifier)
    /\ HasRecord(attempts, identifier)
          => attempts[get_attempt_key(identifier)]
                 = pre.attempts[get_attempt_key(identifier)]
    /\ HasLockout(lockouts, identifier)
          => lockouts[get_lockout_key(identifier)]
                 = pre.lockouts[get_lockout_key(identifier)]

\* C1 (as claimed): while the lockout of user:u1 is active, every
\* authenticate_user call for u1 is rejected as locked without the password
\* being verified, a call with the correct password included.
C1_LockedUserRejected ==
    (Authenticated("u1@x.com") /\ LockedAt(pre.lockouts, user_key("u1"), ret.at))
        => RejectedLocked /\ ~ret.verified

\* C26: no lockout is permanent.  Whatever failures came before, a call of
\* authenticate_user with the correct password of the active user u1, made
\* when the lockouts of the client IP and of user:u1 have expired or do not
\* exist, returns the user.
C26_NoPermanentLockout ==
    (/\ Authenticated("u1@x.com")
     /\ ret.password = "P@ssw0rd1"
     /\ ~LockedAt(pre.lockouts, ret.client_ip, ret.at)
     /\ ~LockedAt(pre.lockouts, user_key("u1"), ret.at))
        => ret.outcome.kind = "return" /\ ret.outcome.value = "u1"

\* C26 happens: the client IP and user:u1 were both locked, both lockouts
\* have expired, and the login with the correct password returned the user
\* and left no lockout behind
C26_Witness ==
    /\ Authenticated("u1@x.com")
    /\ ret.password = "P@ssw0rd1"
    /\ ret.client_ip = "1.2.3.4"
    /\ HasLockout(pre.lockouts, "1.2.3.4")
    /\ HasLockout(pre.lockouts, user_key("u1"))
    /\ ~LockedAt(pre.lockouts, "1.2.3.4", ret.at)
    /\ ~LockedAt(pre.lockouts, user_key("u1"), ret.at)
    /\ ret.outcome.kind = "return"
    /\ ret.outcome.value = "u1"
    /\ lockouts = EmptyDict

\* C9: a wrong-password attempt for the active user u1 from a client IP that
\* is not locked returns False and creates no lockout when it is the 1st to
\* 4th failure in a row for user:u1, and when it is the 5th it raises 423
\* Locked and logs ACCOUNT_LOCKOUT with the user id and the client IP.
C9_FifthWrongPasswordLocks ==
    (/\ Authenticated("u1@x.com")
     /\ ret.password = "wrong"
     /\ ~LockedAt(pre.lockouts, ret.client_ip, ret.at))
        => /\ streak[user_key("u1")] \in 1..(MAX_LOGIN_ATTEMPTS - 1)
                => /\ RejectedInvalidCredentials
                   /\ ~HasLockout(lockouts, user_key("u1"))
                   /\ ~Logged("ACCOUNT_LOCKOUT", "u1", ret.client_ip)
           /\ streak[user_key("u1")] = MAX_LOGIN_ATTEMPTS
                => /\ RejectedLocked
                   /\ LockedAt(lockouts, user_key("u1"), ret.at)
                   /\ Logged("ACCOUNT_LOCKOUT", "u1", ret.client_ip)

\* C9 witness: the 5th wrong password in a row for u1, from 1.2.3.4, with
\* no failure recorded for the IP.
C9_Witness ==
    /\ Authenticated("u1@x.com")
    /\ ret.password = "wrong"
    /\ ret.client_ip = "1.2.3.4"
    /\ Clean(attempts, lockouts, "1.2.3.4")
    /\ streak[user_key("u1")] = MAX_LOGIN_ATTEMPTS
    /\ RejectedLocked

\* C10: an attempt with an unknown email from an IP that is not locked adds
\* one failure to the IP identifier and touches no other identifier; after
\* the 5th such failure in a row the IP is locked; and every
\* authenticate_user call from an IP whose lockout is active raises 423
\* Locked whatever email and password it carries, without looking the user
\* up or verifying the password.
C10_UnknownEmailsLockTheIP ==
    /\ (Authenticated("nobody@x.com") /\ ~LockedAt(pre.lockouts, ret.client_ip, ret.at))
           => /\ RejectedInvalidCredentials
              /\ Count(attempts, ret.client_ip)
                    = (IF HasLockout(pre.lockouts, ret.client_ip)
                       THEN 0 ELSE Count(pre.attempts, ret.client_ip)) + 1
              /\ \A i \in Identifiers \ {ret.client_ip} : Untouched(i)
              /\ streak[ret.client_ip] >= MAX_LOGIN_ATTEMPTS
                    => LockedAt(lockouts, ret.client_ip, ret.at)
    /\ (ret.op = "authenticate_user" /\ LockedAt(pre.lockouts, ret.client_ip, ret.at))
           => /\ RejectedLocked
              /\ ~ret.queried
              /\ ~ret.verified
              /\ attempts = pre.attempts
              /\ lockouts = pre.lockouts

\* C10 witness: the valid credentials of u1, sent from 1.2.3.4 while the
\* lockout that five unknown-email attempts put on 1.2.3.4 is active.
C10_Witness ==
    /\ Authenticated("u1@x.com")
    /\ ret.password = "P@ssw0rd1"
    /\ ret.client_ip = "1.2.3.4"
    /\ LockedAt(pre.lockouts, "1.2.3.4", ret.at)
    /\ streak["1.2.3.4"] = MAX_LOGIN_ATTEMPTS
    /\ Clean(attempts, lockouts, user_key("u1"))
    /\ RejectedLocked

\* C11: an authenticate_user call from a client IP whose lockout is active
\* raises the 423 "Too many failed login attempts" rejection, logs the one
\* event LOCKOUT_ACCESS_ATTEMPT for that IP, and has neither queried the
\* users table nor verified a password: the user rows and the tracker are as
\* the call found them, whoever the email belongs to.
C11_LockedIPRejectedBeforeLookup ==
    (ret.op = "authenticate_user" /\ LockedAt(pre.lockouts, ret.client_ip, ret.at))
        => /\ ret.outcome = HTTPException(HTTP_423_LOCKED,
                  "Too many failed login attempts. Try again in 30 minutes.")
           /\ log = << [event_type |-> "LOCKOUT_ACCESS_ATTEMPT", user_id |-> None,
                        ip_address |-> ret.client_ip, details |-> None] >>
           /\ ~ret.queried
           /\ ~ret.verified
           /\ users = pre.users
           /\ attempts = pre.attempts
           /\ lockouts = pre.lockouts

\* C11 witness: a call for the deactivated user u2 from the locked IP
\* 1.2.3.4 is rejected for the lockout, not for the deactivation.
C11_Witness ==
    /\ Authenticated("u2@x.com")
    /\ ret.client_ip = "1.2.3.4"
    /\ LockedAt(pre.lockouts, "1.2.3.4", ret.at)
    /\ RejectedLocked
    /\ ~ret.queried

\* the tracker's maps are the ones the handler found, but for the lockout
\* of identifier and its attempt record when that lockout had expired
KeptButExpired(identifier) ==
    IF HasLockout(pre.lockouts, identifier) /\ ~LockedAt(pre.lockouts, identifier, ret.at)
    THEN /\ lockouts = [k \in DOMAIN pre.lockouts \ {get_lockout_key(identifier)}
                            |-> pre.lockouts[k]]
         /\ attempts = [k \in DOMAIN pre.attempts \ {get_attempt_key(identifier)}
                            |-> pre.attempts[k]]
    ELSE attempts = pre.attempts /\ lockouts = pre.lockouts

\* authenticate_user raised 423 "Account is deactivated" and logged the one
\* event LOGIN_INACTIVE_USER for the user and the client IP
RejectedInactive(user_id) ==
    /\ ret.outcome = [kind |-> "raise", status_code |-> 423,
                      detail |-> "Account is deactivated"]
    /\ log = << [event_type |-> "LOGIN_INACTIVE_USER", user_id |-> user_id,
                 ip_address |-> ret.client_ip, details |-> None] >>

\* C12 (as claimed): an attempt for the deactivated user u2 from an IP that
\* is not locked is rejected with LOGIN_INACTIVE_USER and leaves every
\* attempt record and every lockout as it found them, whatever the password.
C12_InactiveLeavesTrackerUnchanged ==
    (Authenticated("u2@x.com") /\ ~LockedAt(pre.lockouts, ret.client_ip, ret.at))
        => /\ RejectedInactive("u2")
           /\ attempts = pre.attempts
           /\ lockouts = pre.lockouts

\* C12 (amended): an attempt for the deactivated user u2 from an IP that is
\* not locked is rejected with LOGIN_INACTIVE_USER without the password being
\* verified, whatever the password, and leaves every attempt record and
\* every lockout as it found them, except that a lockout of the client IP
\* that had expired is removed with its attempt record by the lockout check.
C12_InactiveKeepsTrackerButExpired ==
    (Authenticated("u2@x.com") /\ ~LockedAt(pre.lockouts, ret.client_ip, ret.at))
        => /\ RejectedInactive("u2")
           /\ ~ret.verified
           /\ users = pre.users
           /\ KeptButExpired(ret.client_ip)

\* C12 witness: the right password of u2, sent from 1.2.3.4 when the lockout
\* of 1.2.3.4 has expired and user:u1 has failures on record.
C12_Witness ==
    /\ Authenticated("u2@x.com")
    /\ ret.password = "P@ssw0rd1"
    /\ ret.client_ip = "1.2.3.4"
    /\ Count(pre.attempts, user_key("u1")) > 0
    /\ HasLockout(pre.lockouts, "1.2.3.4")
    /\ ~LockedAt(pre.lockouts, "1.2.3.4", ret.at)
    /\ Clean(attempts, lockouts, "1.2.3.4")
    /\ Untouched(user_key("u1"))
    /\ ret.outcome.detail = "Account is deactivated"

\* C13 (as claimed): whatever client IP the request resolves to, an attempt
\* with an unknown email leaves the record and the lockout of user:u1 as they
\* were, and a wrong-password attempt for u1 adds no failure to the record of
\* the client IP and puts no lockout on it.
C13_CountersDisjoint ==
    /\ (Authenticated("nobody@x.com") /\ ~LockedAt(pre.lockouts, ret.client_ip, ret.at))
           => Untouched(user_key("u1"))
    /\ (/\ Authenticated("u1@x.com")
        /\ ret.password = "wrong"
        /\ ~LockedAt(pre.lockouts, ret.client_ip, ret.at))
           => /\ Count(attempts, ret.client_ip) <= Count(pre.attempts, ret.client_ip)
              /\ HasLockout(lockouts, ret.client_ip)
                    => HasLockout(pre.lockouts, ret.client_ip)

\* C14 (as claimed): an attempt with the right password for the active user
\* u1 from an IP that is not locked returns the user, clears the attempt
\* record and the lockout of user:u1, logs the success event, stages the
\* time and the client IP of the login on the user row, and leaves the
\* attempt record and the lockout of the client IP as they were.
C14_SuccessClearsUserOnly ==
    (/\ Authenticated("u1@x.com")
     /\ ret.password = "P@ssw0rd1"
     /\ ~LockedAt(pre.lockouts, ret.client_ip, ret.at))
        => /\ ret.outcome = [kind |-> "return", value |-> "u1"]
           /\ Clean(attempts, lockouts, user_key("u1"))
           /\ log = << [event_type |-> "SUCCESSFUL_LOGIN", user_id |-> "u1",
                        ip_address |-> ret.client_ip, details |-> "Login successful"] >>
           /\ users = [pre.users EXCEPT !["u1"].last_login = ret.at,
                                        !["u1"].last_login_ip = ret.client_ip]
           /\ Untouched(ret.client_ip)

----------------------------------------------------------------------------
(* Claims about the token service, checked under SpecToken                 *)

\* C2 (as claimed): the refresh operation never accepts a token issued as
\* an access token: presented with one that is validly signed and not
\* expired, it fails and issues no token.
C2_AccessTokenNotRefreshable ==
    (/\ ret.op = "refresh_token"
     /\ ret.token \in tokens
     /\ ret.token.payload.type = "access"
     /\ ret.token.payload.exp >= ret.at)
        => ret.outcome.kind = "raise"

\* the token carries the signature the server makes for its payload
WellSigned(token) ==
    token.signature = <<"HS256", "your-secret-key-change-this-in-production",
                        token.payload>>

\* the reasons for which the access path rejects a token at time t
Expired(token, t) == "exp" \in DOMAIN token.payload /\ token.payload.exp < t

WrongKind(token) ==
    "type" \notin DOMAIN token.payload \/ token.payload.type # "access"

NoSubject(token) == "sub" \notin DOMAIN token.payload

NoSuchUser(token) ==
    "sub" \in DOMAIN token.payload /\ token.payload.sub \notin DOMAIN users

\* the one response of the access path to a token it rejects
GenericRejection ==
    [kind |-> "raise", status_code |-> 401,
     detail |-> "Could not validate credentials",
     headers |-> [WWW_Authenticate |-> "Bearer"]]

\* C17: get_current_user answers a token that is badly signed or malformed,
\* expired, of the wrong kind, without subject, or whose subject is no user
\* row, with one and the same exception, 401 "Could not validate
\* credentials", and raises no other exception.
C17_RejectionsAlike ==
    ret.op = "get_current_user"
        => /\ (\/ ~WellSigned(ret.token)
               \/ Expired(ret.token, ret.at)
               \/ WrongKind(ret.token)
               \/ NoSubject(ret.token)
               \/ NoSuchUser(ret.token))
                 => ret.outcome = GenericRejection
           /\ ret.outcome.kind = "raise" => ret.outcome = GenericRejection

\* C17 witness: an access token that login issued is presented after its
\* expiry and rejected.
C17_Witness ==
    /\ ret.op = "get_current_user"
    /\ ret.token \in tokens
    /\ ret.token.payload.type = "access"
    /\ Expired(ret.token, ret.at)
    /\ ret.outcome.kind = "raise"

\* C18: get_current_user returns a user only for a token that carries the
\* server's signature, is not expired and has the kind access, and the user
\* is the token's subject; every refresh token the server issued is
\* rejected, expired or not.
C18_RefreshTokenNotAccepted ==
    ret.op = "get_current_user"
        => /\ ret.outcome.kind = "return"
                => /\ WellSigned(ret.token)
                   /\ ~Expired(ret.token, ret.at)
                   /\ ~WrongKind(ret.token)
                   /\ ~NoSubject(ret.token)
                   /\ ret.outcome.value = ret.token.payload.sub
                   /\ ret.outcome.value \in DOMAIN users
           /\ (ret.token \in tokens /\ ret.token.payload.type = "refresh")
                => ret.outcome.kind = "raise"

\* C18 witness: a refresh token that login issued is presented before its
\* expiry, where the access token issued with it is still accepted.
C18_Witness ==
    /\ ret.op = "get_current_user"
    /\ ret.token \in tokens
    /\ ret.token.payload.type = "refresh"
    /\ ~Expired(ret.token, ret.at)
    /\ ret.outcome.kind = "raise"
    /\ \E token \in tokens :
          /\ token.payload.type = "access"
          /\ get_current_user(users, token, now).outcome.kind = "return"

----------------------------------------------------------------------------
(* Claims about POST /auth/login, checked under SpecLogin                  *)

\* C15: a login returns tokens only when its commit succeeded, and then the
\* user row holds the time and the IP of this login and the tokens issued
\* are the pair returned; the login of a user with the right password whose
\* commit fails raises 500, issues no token and leaves the user row as the
\* rollback restores it; and no login that raises issues a token.
C15_TokensOnlyAfterCommit ==
    ret.op = "login"
        => /\ ret.outcome.kind = "return"
                => /\ ret.commit_ok
                   /\ users["u1"].last_login = ret.at
                   /\ users["u1"].last_login_ip = ret.client_ip
                   /\ tokens = pre.tokens \cup {ret.outcome.value.access_token,
                                                ret.outcome.value.refresh_token}
                   /\ ret.outcome.value.access_token.payload
                         = [sub |-> "u1", type |-> "access",
                            exp |-> ret.at + 30 * 60]
                   /\ ret.outcome.value.refresh_token.payload
                         = [sub |-> "u1", type |-> "refresh",
                            exp |-> ret.at + 7 * 24 * 60 * 60]
           /\ ret.outcome.kind = "raise" => tokens = pre.tokens
           /\ (/\ ~ret.commit_ok
               /\ ret.email = "u1@x.com"
               /\ ret.password = "P@ssw0rd1"
               /\ ~LockedAt(pre.lockouts, ret.client_ip, ret.at))
                => /\ ret.outcome = [kind |-> "raise", status_code |-> 500,
                                     detail |-> "Database error during login"]
                   /\ users = pre.users

\* C15 witness: the login of u1 with the right password at a later time
\* than a login that returned tokens; its commit fails.
C15_Witness ==
    /\ ret.op = "login"
    /\ ~ret.commit_ok
    /\ ret.email = "u1@x.com"
    /\ ret.password = "P@ssw0rd1"
    /\ ret.outcome.kind = "raise"
    /\ ret.outcome.status_code = 500
    /\ \E token \in tokens :
          token.payload.type = "access" /\ token.payload.exp < ret.at + 30 * 60
    /\ users = pre.users

\* what the caller of login sees of an outcome: the status and the message
\* of an error, or that it got tokens
Visible(outcome) ==
    IF outcome.kind = "raise"
    THEN [status_code |-> outcome.status_code, detail |-> outcome.detail]
    ELSE [status_code |-> 200, detail |-> "tokens"]

\* the caller-visible results of k logins in a row with the same email and
\* password from the same client, starting from the tracker att, lck
RECURSIVE LoginResults(_, _, _, _, _, _, _, _)
LoginResults(att, lck, usrs, username, password, request, k, t) ==
    IF k = 0 THEN <<>>
    ELSE LET r == login(att, lck, usrs, username, password, request, TRUE, t)
         IN  <<Visible(r.outcome)>>
                 \o LoginResults(r.attempts, r.lockouts, r.users, username, password,
                                 request, k - 1, t)

\* C16 (as claimed): from any state of the tracker, a run of up to five
\* logins from one IP with a wrong password for the active user u1 and the
\* same run with an email that no user has show the caller the same results,
\* attempt by attempt.
C16_FailuresReportedAlike ==
    \A request \in {q \in Requests : q.x_real_ip = <<>> /\ q.x_forwarded_for = <<>>} :
        \A k \in 1..MAX_LOGIN_ATTEMPTS :
            LoginResults(attempts, lockouts, users, "u1@x.com", "wrong", request, k, now)
                = LoginResults(attempts, lockouts, users, "nobody@x.com", "wrong",
                               request, k, now)

----------------------------------------------------------------------------
(* Claims about the ThreatDetector, checked under SpecThreat               *)

\* C8 (as claimed): for a request from a blocked IP analyze_request returns
\* one event, UNAUTHORIZED_ACCESS with severity HIGH, and does nothing else:
\* the IP's request window and the suspicious set stay as they were.
C8_BlockedRequestNotProcessed ==
    (ret.op = "analyze_request" /\ ret.ip_address \in pre.blocked_ips)
        => /\ Len(ret.value) = 1
           /\ ret.value[1].event_type = "UNAUTHORIZED_ACCESS"
           /\ ret.value[1].severity = "HIGH"
           /\ request_patterns = pre.request_patterns
           /\ suspicious_ips = pre.suspicious_ips

\* the number of the times of list that are later than cutoff
CountAfter(list, cutoff) ==
    Cardinality({n \in 1..Len(list) : list[n] > cutoff})

\* the events of this type among those the last analyze_request returned
EventsOfType(event_type) ==
    {n \in 1..Len(ret.value) : ret.value[n].event_type = event_type}

\* C19: each analyze_request for a request from an IP that is not blocked
\* returns one RATE_LIMIT_EXCEEDED event of severity MEDIUM and puts the IP
\* into the suspicious set when more than 60 requests of the IP, this one
\* included, came in the last 60 seconds (later than 60 seconds before it),
\* and returns no such event and leaves the suspicious set alone when 60 or
\* fewer did: of 61 requests within a minute only the 61st has the event.
C19_RateLimitAtSixtyOne ==
    (ret.op = "analyze_request" /\ ret.ip_address \notin pre.blocked_ips)
        => LET count == CountAfter(seen.requests[ret.ip_address], ret.at - 60)
               events == EventsOfType("RATE_LIMIT_EXCEEDED")
           IN  IF count > 60
               THEN /\ Cardinality(events) = 1
                    /\ \A n \in events :
                          /\ ret.value[n].severity = "MEDIUM"
                          /\ ret.value[n].ip_address = ret.ip_address
                    /\ suspicious_ips = pre.suspicious_ips \cup {ret.ip_address}
               ELSE /\ events = {}
                    /\ suspicious_ips = pre.suspicious_ips

\* C19 witness: the 61st request of an IP, half a minute after the first,
\* is the first to have the event.
C19_Witness ==
    /\ ret.op = "analyze_request"
    /\ Len(seen.requests[ret.ip_address]) = 61
    /\ seen.requests[ret.ip_address][1] = ret.at - 30
    /\ EventsOfType("RATE_LIMIT_EXCEEDED") # {}
    /\ pre.suspicious_ips = {}
    /\ suspicious_ips = {ret.ip_address}

\* C20: record_failed_login(ip) returns True exactly when 5 or more failures
\* of the IP, this one included, were recorded in the last 30 minutes (later
\* than 30 minutes before it); the IP is in the blocked set afterwards
\* exactly when it was there before or the call returned True; and the list
\* kept for the IP holds those failures and no older one, so that failures
\* of which no 30 minutes hold 5 never block.
C20_BlockedAtFiveInWindow ==
    ret.op = "record_failed_login"
        => LET ip == ret.ip_address
               count == CountAfter(seen.failures[ip], ret.at - 30 * 60)
           IN  /\ ret.value = (count >= 5)
               /\ ip \in blocked_ips <=> (ip \in pre.blocked_ips \/ count >= 5)
               /\ Len(failed_attempts[ip]) = count
               /\ \A n \in 1..Len(failed_attempts[ip]) :
                     failed_attempts[ip][n] > ret.at - 30 * 60
               /\ blocked_ips \ {ip} = pre.blocked_ips \ {ip}

\* C20 witness: four failures at the start and four more 30 minutes later
\* have not blocked the IP, the first four being pruned; a ninth failure 15
\* minutes after those, the 5th within 30 minutes, blocks it.
C20_Witness ==
    /\ ret.op = "record_failed_login"
    /\ ret.value = TRUE
    /\ seen.failures[ret.ip_address]
          = <<0, 0, 0, 0, 30 * 60, 30 * 60, 30 * 60, 30 * 60, 45 * 60>>
    /\ ret.ip_address \notin pre.blocked_ips
    /\ ret.ip_address \in blocked_ips

----------------------------------------------------------------------------
(* Claims about the blocked set and the dashboard, checked under           *)
(* SpecBlocklist                                                           *)

\* C21: the blocked set only grows.  No step of the detector, the
\* middleware, the logger, the dashboard or the tracker, and no passage of
\* time, takes an IP off the blocked set.
C21_BlockedSetOnlyGrows == [][blocked_ips \subseteq blocked_ips']_vars

\* C21 happens: an IP was blocked, its failures have left the window, and
\* one more failure of it, the only one in the window, leaves it blocked
C21_Witness ==
    /\ ret.op = "record_failed_login"
    /\ ret.value = FALSE
    /\ ret.ip_address \in pre.blocked_ips
    /\ ret.ip_address \in blocked_ips
    /\ Len(failed_attempts[ret.ip_address]) = 1

\* C24: the dashboard is read-only.  get_security_dashboard_data leaves the
\* blocked set, the suspicious set, the request windows, the failure
\* windows, the performance samples and alerts and the stored security
\* events as it found them; when its query fails it returns the empty
\* aggregate, and otherwise the aggregate with the counts of the two sets
\* and the last alerts.
C24_DashboardReadOnly ==
    ret.op = "get_security_dashboard_data" =>
        /\ blocked_ips = pre.blocked_ips
        /\ suspicious_ips = pre.suspicious_ips
        /\ request_patterns = pre.request_patterns
        /\ failed_attempts = pre.failed_attempts
        /\ metrics = pre.metrics
        /\ endpoint_stats = pre.endpoint_stats
        /\ alerts = pre.alerts
        /\ security_logs = pre.security_logs
        /\ (~ret.query_ok => DOMAIN ret.value = {})
        /\ (ret.query_ok =>
               /\ DOMAIN ret.value # {}
               /\ ret.value.blocked_ips = Cardinality(blocked_ips)
               /\ ret.value.suspicious_ips = Cardinality(suspicious_ips)
               /\ ret.value.performance_alerts = LastN(alerts, dashboard_alerts))

\* C24 happens: with an IP blocked and an alert raised, the query of the
\* dashboard failed
C24_Witness ==
    /\ ret.op = "get_security_dashboard_data"
    /\ ~ret.query_ok
    /\ blocked_ips # {}
    /\ alerts # <<>>
    /\ request_patterns # EmptyDict

----------------------------------------------------------------------------
(* Claims about the order of the checks of a login, checked under SpecGate *)

\* the detector was asked about the IP at the time t: analyze_request, the
\* one place that tests the blocked set, ran for the IP at that time
Asked(ip_address, t) ==
    /\ ip_address \in DOMAIN seen.requests
    /\ \E i \in 1..Len(seen.requests[ip_address]) : seen.requests[ip_address][i] = t

\* C22: on every authentication request the orchestrator first asks the
\* Threat Detector whether the source IP is blocked or suspicious, then the
\* Login Attempt Tracker, and only then compares credentials: no call of
\* authenticate_user ends without the detector having been asked about the
\* client IP at the time of the call.
C22_DetectorAskedFirst ==
    ret.op = "authenticate_user" => Asked(ret.client_ip, ret.at)

----------------------------------------------------------------------------
(* Claims about the round trip of a token, checked under SpecRoundTrip     *)

\* the last handler verified a token of the given kind that the server made
\* and that had not expired, on the path of that kind
Verified(kind) ==
    /\ ret.op = (IF kind = "access" THEN "get_current_user" ELSE "refresh_token")
    /\ ret.token \in pre.tokens
    /\ ret.token.payload.type = kind
    /\ ~Expired(ret.token, ret.at)

\* the verification gave back the subject of the token: the user returned
\* on the access path, the subject of both new tokens on the refresh path
GaveSubject(kind) ==
    /\ ret.outcome.kind = "return"
    /\ IF kind = "access"
       THEN ret.outcome.value = ret.token.payload.sub
       ELSE /\ ret.outcome.value.access_token.payload.sub = ret.token.payload.sub
            /\ ret.outcome.value.refresh_token.payload.sub = ret.token.payload.sub

\* C27 (as claimed): for every kind, every subject and every ttl > 0,
\* verifying the issued token as its kind before its expiry succeeds and
\* returns the subject it was issued for.
C27_RoundTripEverySubject ==
    \A kind \in {"access", "refresh"} : Verified(kind) => GaveSubject(kind)

\* C27 (amended): the same for every subject that is the id of a stored
\* user.
C27_RoundTripStoredUsers ==
    \A kind \in {"access", "refresh"} :
        (Verified(kind) /\ ret.token.payload.sub \in DOMAIN users) => GaveSubject(kind)

\* C27 happens: an access token made with an expires_delta of a quarter of
\* an hour, for u1, was verified at the second it expires and gave u1
C27_Witness ==
    /\ Verified("access")
    /\ ret.token.payload.sub = "u1"
    /\ ret.at = ret.token.payload.exp
    /\ ret.at = Minutes(15)
    /\ GaveSubject("access")

\* the exp claim a token of the kind made at time t with the expires_delta
\* ttl has to carry
Expiry(kind, ttl, t) ==
    IF kind = "refresh" THEN t + Days(7)
    ELSE IF ttl = 0 THEN t + Minutes(30) ELSE t + ttl

\* C28: the expiry of a token is its issue time plus its ttl, 30 minutes
\* by default for an access token and 7 days for a refresh token, and at
\* every time after its expiry the token is rejected, by get_current_user
\* with JWT_ERROR "Signature has expired." logged, and by refresh_token.
C28_ExpiredTokenRejected ==
    /\ ret.op = "issue" =>
          ret.token.payload.exp = Expiry(ret.kind, ret.ttl, ret.at)
    /\ (/\ ret.op \in {"get_current_user", "refresh_token"}
        /\ ret.token \in pre.tokens
        /\ ret.at > ret.token.payload.exp)
          => /\ ret.outcome.kind = "raise"
             /\ ret.outcome.status_code = HTTP_401_UNAUTHORIZED
             /\ ret.op = "get_current_user" =>
                   log = <<log_security_event("JWT_ERROR", None, None,
                                              "Signature has expired.")>>

\* C28 happens: a refresh token made at the start was refused on the
\* refresh path a quarter of an hour after its seven days
C28_Witness ==
    /\ ret.op = "refresh_token"
    /\ ret.token \in pre.tokens
    /\ ret.token.payload.type = "refresh"
    /\ ret.token.payload.exp = Days(7)
    /\ ret.at = Days(7) + Minutes(15)
    /\ ret.outcome.kind = "raise"

----------------------------------------------------------------------------
(* Claims about concurrent handlers, checked under SpecHandlers            *)

\* the handlers that have recorded their failure
Done == {h \in Handlers : pc[h].at = "done"}

\* C25: concurrent handlers lose no increment.  Whatever the order in which
\* the handlers of concurrent failed logins of one fresh identifier arrive
\* and run, the count of the identifier is the number of handlers that have
\* recorded their failure, and the identifier is locked if and only if
\* that number is at least 5.
C25_NoLostIncrement ==
    /\ Count(attempts, "user:u1") = Cardinality(Done)
    /\ HasLockout(lockouts, "user:u1") <=> Cardinality(Done) >= MAX_LOGIN_ATTEMPTS

\* C25 happens: the fifth failure was recorded, and locked the identifier,
\* while another handler was waiting for its turn
C25_Witness ==
    /\ ret.op = "login"
    /\ ret.waiting >= 1
    /\ Cardinality(Done) = MAX_LOGIN_ATTEMPTS
    /\ HasLockout(lockouts, "user:u1")

----------------------------------------------------------------------------
(* Claims about the security logger, checked under SpecMonitor             *)

\* the lines of the stream that report a failure to log a security event
FailuresLogged ==
    {i \in 1..Len(stream) : /\ stream[i].logger = "security"
                            /\ stream[i].level = "ERROR"
                            /\ stream[i].message = "Failed to log security event"}

\* C23: log_security_event never raises to its caller.  When the write to
\* the stream or the staging of the row fails, the call returns None all
\* the same and, the stream working, has written one line that reports the
\* failure; the middleware that logged the events of a request goes on to
\* call the application, hands its response back and records its metric.
C23_EmitNeverRaises ==
    /\ ret.op = "log_security_event" =>
          /\ ret.outcome.kind = "return"
          /\ (ret.db # <<>> /\ ret.fault # None /\ ret.stream_ok
                  => Cardinality(FailuresLogged) = 1)
    /\ ret.op = "middleware" =>
          /\ ret.outcome.kind = "return"
          /\ ret.app_called
          /\ ret.outcome.value = ret.response.status_code
          /\ Len(metrics) = Len(pre.metrics) + 1
          /\ (ret.fault # None /\ ret.stream_ok
                  => Cardinality(FailuresLogged) = Len(ret.events))

\* C23 happens: the staging of the event of a path traversal failed, the
\* failure was written to the stream, and the request was answered
C23_Witness ==
    /\ ret.op = "middleware"
    /\ ret.events # <<>>
    /\ ret.fault # None
    /\ ret.stream_ok
    /\ FailuresLogged # {}
    /\ ret.app_called

----------------------------------------------------------------------------
(* Claims about the password policy, checked under SpecPolicy              *)

\* the rules of the policy in their order (spec 4.1)
Rules ==
    <<"length", "uppercase", "lowercase", "digit", "symbol", "repeat",
      "sequential", "deny">>

\* the password p satisfies the rule
Satisfies(rule, p) ==
    CASE rule = "length" -> Len(p) >= PASSWORD_MIN_LENGTH
      [] rule = "uppercase" ->
            \E n \in 1..Len(p) : \E k \in 1..Len(UpperCase) : p[n] = UpperCase[k]
      [] rule = "lowercase" ->
            \E n \in 1..Len(p) : \E k \in 1..Len(LowerCase) : p[n] = LowerCase[k]
      [] rule = "digit" -> \E n \in 1..Len(p) : p[n] \in Digits
      [] rule = "symbol" -> \E n \in 1..Len(p) : p[n] \in SpecialChars
      [] rule = "repeat" ->
            ~\E n \in 1..(Len(p) - 2) : p[n] = p[n + 1] /\ p[n + 1] = p[n + 2]
      [] rule = "sequential" ->
            ~\E lit \in sequential_patterns :
                \E n \in 1..(Len(p) - 2) : SubSeq(Lower(p), n, n + 2) = lit
      [] rule = "deny" -> Join(Lower(p)) \notin common_passwords

\* the message that reports a violated rule
Message(rule) ==
    CASE rule = "length" -> "Password must be at least 8 characters long"
      [] rule = "uppercase" -> "Password must contain at least one uppercase letter"
      [] rule = "lowercase" -> "Password must contain at least one lowercase letter"
      [] rule = "digit" -> "Password must contain at least one number"
      [] rule = "symbol" -> "Password must contain at least one special character"
      [] rule = "repeat" ->
            "Password cannot contain three consecutive identical characters"
      [] rule = "sequential" -> "Password cannot contain common sequential patterns"
      [] rule = "deny" -> "Password is too common and not allowed"

\* the rules p violates, in the order of the rules
Violated(p) == SelectSeq(Rules, LAMBDA rule : ~Satisfies(rule, p))

\* C29: get_password_hash returns a hash only when validate reports no
\* violation and otherwise fails with a ValueError that lists the
\* violations, and no hash that register stores derives from a password
\* that violates a rule of the policy.
C29_NoHashOfViolatingPassword ==
    /\ ret.op = "get_password_hash" =>
          LET v == validate_password_strength(ret.password)
          IN  IF v.ok
              THEN /\ ret.outcome.kind = "return"
                   /\ ret.outcome.value = pwd_hash(Join(ret.password))
              ELSE /\ ret.outcome.kind = "raise"
                   /\ ret.outcome.exc = "ValueError"
                   /\ ret.outcome.message =
                          "Password validation failed: " \o JoinWith("; ", v.errors)
    /\ \A u \in DOMAIN users \ DOMAIN UserTable : \A p \in PolicyPasswords :
          users[u].hashed_password = pwd_hash(Join(p)) => Violated(p) = <<>>

\* C30: validate evaluates every rule: ok is true exactly when the password
\* satisfies every rule, and the violations list holds each violated rule
\* once, in the order of the rules.
C30_ValidateReportsEveryViolation ==
    ret.op = "validate_password_strength" =>
        /\ ret.ok <=> \A k \in 1..Len(Rules) : Satisfies(Rules[k], ret.password)
        /\ ret.errors =
               [k \in 1..Len(Violated(ret.password)) |->
                   Message(Violated(ret.password)[k])]

----------------------------------------------------------------------------
(* Claims about email verification, checked under SpecVerify               *)

\* the response of verify_email to a token no user record holds
RejectedInvalidToken ==
    /\ ret.outcome.kind = "raise"
    /\ ret.outcome.status_code = HTTP_400_BAD_REQUEST
    /\ ret.outcome.detail = "Invalid verification token"

\* C31: a verification token is single-use: its first successful use clears
\* the stored token on the user record, and every later verification request
\* with the same token is rejected as invalid and changes no user record.
C31_TokenSingleUse ==
    ret.op = "verify_email" =>
        /\ ret.outcome.kind = "return" =>
              /\ \E u \in DOMAIN pre.users : pre.users[u].verification_token = ret.token
              /\ \A u \in DOMAIN users : users[u].verification_token # ret.token
        /\ ret.token \in pre.spent => RejectedInvalidToken /\ users = pre.users

\* a token is presented again after it was accepted, and is rejected
C31_Witness ==
    /\ ret.op = "verify_email"
    /\ ret.token \in pre.spent
    /\ RejectedInvalidToken
    /\ \E u \in DOMAIN users \ DOMAIN UserTable : users[u].is_verified

----------------------------------------------------------------------------
(* Claims about the composed system, checked under SpecComposed            *)

\* C32: in the composed system no sequence of requests and login attempts
\* calls ThreatDetector.record_failed_login: the detector's failure lists
\* and its blocked set stay empty, and analyze_request never emits
\* UNAUTHORIZED_ACCESS.
C32_DetectorNeverToldOfFailures ==
    /\ failed_attempts = EmptyDict
    /\ blocked_ips = {}
    /\ ret.op \in {"monitored_login", "middleware"} =>
          \A k \in 1..Len(ret.events) : ret.events[k].event_type # "UNAUTHORIZED_ACCESS"

\* the tracker has locked the IP out after failed logins through the
\* middleware, and the next login from it is refused
C32_Witness ==
    /\ ret.op = "monitored_login"
    /\ ret.outcome.kind = "raise"
    /\ ret.outcome.status_code = HTTP_423_LOCKED
    /\ "1.2.3.4" \in DOMAIN pre.request_patterns
    /\ Len(pre.request_patterns["1.2.3.4"]) >= max_failed_attempts
    /\ blocked_ips = {}

----------------------------------------------------------------------------
(* Claims about lockouts and failure counts over time, checked under       *)
(* SpecAuth                                                                *)

\* the identifiers get_client_ip gives for the requests of the model
ClientIPs == {get_client_ip(request) : request \in Requests}

\* the expiry of the lockout of identifier
LockoutUntil(lck, identifier) == lck[get_lockout_key(identifier)]

\* an authenticate_user call made from a locked-out client IP is rejected
\* with 423 and leaves every attempt record and every lockout as it was
LockedCallChangesNothing ==
    (ret.op = "authenticate_user" /\ LockedAt(pre.lockouts, ret.client_ip, ret.at))
        => /\ RejectedLocked
           /\ ~ret.queried
           /\ attempts = pre.attempts
           /\ lockouts = pre.lockouts

RecordRemoved(identifier) ==
    /\ ret.op = "authenticate_user"
    /\ HasRecord(pre.attempts, identifier)
    /\ ~HasRecord(attempts, identifier)

\* the last authenticate_user call was a successful login of u1, which ends
\* in record_successful_attempt for user:u1
SuccessCleared(identifier) ==
    /\ identifier = user_key("u1")
    /\ ret.outcome = [kind |-> "return", value |-> "u1"]

\* the last authenticate_user call came from identifier when its lockout had
\* expired, and the lockout check purged it
ExpiryPurged(identifier) ==
    /\ identifier = ret.client_ip
    /\ HasLockout(pre.lockouts, identifier)
    /\ ret.at >= LockoutUntil(pre.lockouts, identifier)

----------------------------------------------------------------------------
(* Claims about the refresh of tokens, checked under SpecRefresh           *)

\* the subject of a token, None when it has none
SubjectOf(token) == Get(token.payload, "sub")

\* C35: the refresh operation answers every token that carries the server's
\* signature, is not expired and whose subject is the id of a user row with
\* a new access token and a new refresh token for that user, whether or not
\* the user is active and whatever the Login Attempt Tracker holds, and it
\* leaves the tracker and the user rows as they were.
C35_RefreshIgnoresActiveAndLockout ==
    (/\ ret.op = "refresh_token"
     /\ WellSigned(ret.token)
     /\ ~Expired(ret.token, ret.at)
     /\ SubjectOf(ret.token) \in DOMAIN pre.users)
        => /\ ret.outcome.kind = "return"
           /\ LET pair == ret.outcome.value
              IN  /\ WellSigned(pair.access_token)
                  /\ WellSigned(pair.refresh_token)
                  /\ pair.access_token.payload
                         = [sub |-> SubjectOf(ret.token), type |-> "access",
                            exp |-> ret.at + Minutes(ACCESS_TOKEN_EXPIRE_MINUTES)]
                  /\ pair.refresh_token.payload
                         = [sub |-> SubjectOf(ret.token), type |-> "refresh",
                            exp |-> ret.at + Days(REFRESH_TOKEN_EXPIRE_DAYS)]
                  /\ {pair.access_token, pair.refresh_token} \subseteq tokens
           /\ attempts = pre.attempts
           /\ lockouts = pre.lockouts
           /\ users = pre.users

\* C35 witness: u1 logged in, was then locked by failed logins and
\* deactivated, and the refresh token of the login still buys a new pair.
C35_Witness ==
    /\ ret.op = "refresh_token"
    /\ ret.token \in pre.tokens
    /\ ret.token.payload.type = "refresh"
    /\ ret.token.payload.sub = "u1"
    /\ ~users["u1"].is_active
    /\ LockedAt(lockouts, user_key("u1"), ret.at)
    /\ ret.outcome.kind = "return"
    /\ ret.outcome.value.access_token \notin pre.tokens

----------------------------------------------------------------------------
(* Claims about the cleanup of an expired lockout by concurrent handlers,  *)
(* checked under SpecCleanup                                               *)

\* the handlers of the two requests that have returned or raised
Finished == {h \in TwoHandlers : pc[h].at = "done"}

\* C36: when the handlers of two requests that arrived while the expired
\* lockout of an identifier was in the map run is_locked_out or
\* record_successful_attempt on it, in whatever order they arrive and are
\* started, no statement of either raises KeyError, and when both have
\* finished neither map holds an entry of the identifier.
C36_CleanupNeverRaises ==
    /\ \A h \in TwoHandlers : pc[h].at # "idle" => pc[h].read.error = None
    /\ ret.op = "statement" => ret.error = None
    /\ Finished = TwoHandlers => Clean(attempts, lockouts, "user:u1")

\* C36 witness: is_locked_out and record_successful_attempt both finished,
\* the second having waited while the first deleted the lockout and the
\* attempt record, and found nothing left to delete.
C36_Witness ==
    /\ Finished = TwoHandlers
    /\ {pc[h].read.op : h \in TwoHandlers} = CleanupOps
    /\ ret.op = "statement"
    /\ ret.others # {}
    /\ ret.error = None
    /\ Clean(attempts, lockouts, "user:u1")

============================================================================
